---- MODULE Spec2Model ----
(***************************************************************************)
(* A model of the connection pool (AsyncIOPool), the routing pool          *)
(* (AsyncNeo4jPool) and the session state machine (AsyncSession /          *)
(* Workspace) of the neo4j python driver.                                  *)
(*                                                                         *)
(* Spec models the base pool used by concurrent tasks.  Every critical     *)
(* section of the pool (a block run under self.lock) is one atomic step;   *)
(* the code between two critical sections of one task is a step of its     *)
(* own, so that other tasks interleave exactly where the lock is free.     *)
(* release holds the lock from its first line to its last, so it is one    *)
(* step.                                                                   *)
(*                                                                         *)
(* A connection object that is closed is referenced by nothing (the pool   *)
(* closes a connection only as it drops it), so its identity is used       *)
(* again for the next connection the opener creates.                       *)
(***************************************************************************)
EXTENDS Integers, Sequences, FiniteSets, TLC

\* ------------------------------------------------------------------ bounds
NumTasks == 3           \* concurrent tasks using the pool
NumConns == 2           \* connection objects alive at the same time
MaxReservations == 2    \* cap on the reservation counter of one address
MaxPoolSize == 1        \* the configured max_connection_pool_size

Tasks == 1..NumTasks
Conns == 1..NumConns
Addrs == {"a1"}
NoConn == 0
NoAddr == "none"

\* --------------------------------------------------------------- variables
VARIABLES
    connections,    \* AsyncIOPool.connections: address -> sequence of connections
    reservations,   \* AsyncIOPool.connections_reservations: address -> count
    in_use,         \* connection.in_use
    closed,         \* connection.closed()
    defunct,        \* connection.defunct()
    stale,          \* connection.stale()
    is_reset,       \* connection.is_reset
    pc,             \* task -> its position in _acquire
    taddr,          \* task -> the address of its running _acquire
    cand,           \* task -> the connection it took from the pool, under health check
    held,           \* task -> the connection acquire returned to it
    expired,        \* task -> the deadline of its running _acquire has expired
    last            \* the pool operation that completed in the last step

poolVars == <<connections, reservations, in_use, closed, defunct, stale,
              is_reset, pc, taddr, cand, held, expired, last>>

\* The routing pool (AsyncNeo4jPool), used by SpecRouting.
VARIABLES
    routing_tables, \* AsyncNeo4jPool.routing_tables: database -> RoutingTable
    refresh_lock,   \* the task that owns AsyncNeo4jPool.refresh_lock, or 0
    rpc,            \* task -> its position in AsyncNeo4jPool.acquire
    rmode,          \* task -> access_mode of its running acquire
    rdb,            \* task -> database of its running acquire
    rplan,          \* task -> the routers update_routing_table has yet to try
    rcur,           \* task -> the address _select_address returned to it
    rnewdb,         \* task -> the database named by the reply it installed
    rpool,          \* address -> the number of its connections in use
    removed,        \* the addresses deactivate was called for so far
    rlast,          \* the routing operation that completed in the last step
    ridle           \* the addresses the pool holds an idle connection to
                    \* (followed by SpecRoutingIdle only)

routeVars == <<routing_tables, refresh_lock, rpc, rmode, rdb, rplan, rcur,
               rnewdb, rpool, removed, rlast, ridle>>

\* The session (AsyncSession over Workspace), used by SpecSession.
VARIABLES
    s_connection,       \* Workspace._connection: a connection, or NoConn
    s_transaction,      \* AsyncSession._transaction: a transaction, or NoTx
    s_auto_result,      \* AsyncSession._auto_result: a result, or NoResult
    s_bookmarks,        \* Workspace._bookmarks: the last bookmark, or 0
    s_closed,           \* Workspace._closed
    s_cached_database,  \* Workspace._cached_database
    s_database,         \* Workspace._config.database
    s_discovery,        \* the calls of update_routing_table by _connect so
                        \* far: "never", "failed" (all raised), "done"
    owner,              \* connection -> who has it in use: "free", "session", "other"
    spc,                \* the position of the caller in _run_transaction
    attempts,           \* the failed attempts of the running _run_transaction
    tx,                 \* the local tx of the running _run_transaction
    slast               \* the session operation that completed in the last step

sessVars == <<s_connection, s_transaction, s_auto_result, s_bookmarks,
              s_closed, s_cached_database, s_database, s_discovery, owner,
              spc, attempts, tx, slast>>

\* The retry loop of a managed transaction (AsyncSession._run_transaction)
\* with its clock, used by SpecRetry.
VARIABLES
    rt_pc,          \* position in _run_transaction
    rt_cfg,         \* the retry settings of the session config
    rt_now,         \* perf_counter()
    rt_t0,          \* t0, the timer: -1 until the first attempt has failed
    rt_delay,       \* delay of retry_delay_generator
    rt_sleep,       \* the delay drawn for the sleep that is due
    rt_errors,      \* len(errors)
    rt_calls,       \* history: calls of transaction_function
    rt_sleeps,      \* history: sleeps between attempts
    rt_fnfails,     \* history: calls that raised a retryable error
    rt_result,      \* result, the value the last call returned, or 0
    rt_clean        \* history: no attempt failed but by a retryable error
                    \* of the user function

retryVars == <<rt_pc, rt_cfg, rt_now, rt_t0, rt_delay, rt_sleep, rt_errors,
               rt_calls, rt_sleeps, rt_fnfails, rt_result, rt_clean>>

\* The pool configuration.
VARIABLES
    max_pool_size,  \* pool_config.max_connection_pool_size
    default_access_mode     \* the default_access_mode the session was
                            \* created with: "unset", "READ" or "WRITE"

confVars == <<max_pool_size, default_access_mode>>

vars == <<poolVars, routeVars, sessVars, retryVars, confVars>>

NoOp == [op |-> "none", task |-> 0, conn |-> NoConn, res |-> "none"]
Done(o, t, c, r) == [op |-> o, task |-> t, conn |-> c, res |-> r]

\* ----------------------------------------------------------------- helpers
RECURSIVE SeqRemove(_, _)
\* deque.remove(x): drops the first occurrence of x
SeqRemove(s, x) ==
    IF s = <<>> THEN <<>>
    ELSE IF Head(s) = x THEN Tail(s)
    ELSE <<Head(s)>> \o SeqRemove(Tail(s), x)

Range(s) == {s[i] : i \in 1..Len(s)}

Min(S) == CHOOSE x \in S : \A y \in S : x <= y

Pooled == UNION {Range(connections[a]) : a \in Addrs}

\* The health check of _acquire, without the liveness reset.
Broken_StaleIsFine(c) == closed[c] \/ defunct[c]

Broken(c) == closed[c] \/ defunct[c] \/ stale[c]

\* connection.close() on each connection of the set cs.  closed() is all
\* that is read of a closed connection, so its other flags are cleared.
CloseAll(cs) ==
    /\ closed' = [c \in Conns |-> closed[c] \/ c \in cs]
    /\ defunct' = [c \in Conns |-> defunct[c] /\ c \notin cs]
    /\ stale' = [c \in Conns |-> stale[c] /\ c \notin cs]
    /\ is_reset' = [c \in Conns |-> is_reset[c] /\ c \notin cs]

\* ------------------------------------------------------------------- Init
\* The pool after construction: no connection exists.
PoolStart ==
    /\ connections = [a \in Addrs |-> <<>>]
    /\ reservations = [a \in Addrs |-> 0]
    /\ in_use = [c \in Conns |-> FALSE]
    /\ closed = [c \in Conns |-> TRUE]
    /\ defunct = [c \in Conns |-> FALSE]
    /\ stale = [c \in Conns |-> FALSE]
    /\ is_reset = [c \in Conns |-> FALSE]
    /\ pc = [t \in Tasks |-> "idle"]
    /\ taddr = [t \in Tasks |-> NoAddr]
    /\ cand = [t \in Tasks |-> NoConn]
    /\ held = [t \in Tasks |-> NoConn]
    /\ expired = [t \in Tasks |-> FALSE]
    /\ last = NoOp

\* A pool of the largest size the model follows, and a pool of any size up
\* to it.
Init == PoolStart /\ max_pool_size = MaxPoolSize

InitAnySize == PoolStart /\ max_pool_size \in 0..MaxPoolSize

\* ------------------------------------------------------------ AsyncIOPool
\* _acquire: a task that holds nothing starts to acquire a connection to a.
AcquireStart(t, a) ==
    /\ pc[t] = "idle"
    /\ held[t] = NoConn
    /\ pc' = [pc EXCEPT ![t] = "scan"]
    /\ taddr' = [taddr EXCEPT ![t] = a]
    /\ last' = NoOp
    /\ UNCHANGED <<connections, reservations, in_use, closed, defunct, stale,
                   is_reset, cand, held, expired>>

\* The deadline of a running _acquire passes before the code reads it.
DeadlineExpires(t) ==
    /\ pc[t] \in {"scan", "new"}
    /\ ~expired[t]
    /\ expired' = [expired EXCEPT ![t] = TRUE]
    /\ last' = NoOp
    /\ UNCHANGED <<connections, reservations, in_use, closed, defunct, stale,
                   is_reset, pc, taddr, cand, held>>

\* _acquire returns or raises: its locals go out of scope.
Leave(t) ==
    /\ pc' = [pc EXCEPT ![t] = "idle"]
    /\ taddr' = [taddr EXCEPT ![t] = NoAddr]
    /\ cand' = [cand EXCEPT ![t] = NoConn]
    /\ expired' = [expired EXCEPT ![t] = FALSE]

\* _acquire_from_pool: the first connection of the address that is not in use.
FreeIndexes_AnyConnection(a) == DOMAIN connections[a]

FreeIndexes(a) == {i \in DOMAIN connections[a] : ~in_use[connections[a][i]]}

FirstFree(a) ==
    IF FreeIndexes(a) = {} THEN NoConn
    ELSE connections[a][Min(FreeIndexes(a))]

\* _acquire_from_pool_checked, one turn of its loop up to the health check:
\* with the deadline expired the loop is left without a connection.
AcquireFromPool(t) ==
    /\ pc[t] = "scan"
    /\ LET c == IF expired[t] THEN NoConn ELSE FirstFree(taddr[t]) IN
        IF c = NoConn
        THEN /\ pc' = [pc EXCEPT ![t] = "new"]
             /\ UNCHANGED <<in_use, cand>>
        ELSE /\ in_use' = [in_use EXCEPT ![c] = TRUE]
             /\ cand' = [cand EXCEPT ![t] = c]
             /\ pc' = [pc EXCEPT ![t] = "check"]
    /\ last' = NoOp
    /\ UNCHANGED <<connections, reservations, closed, defunct, stale,
                   is_reset, taddr, held, expired>>

\* health_check passes: the connection is returned by _acquire.  With
\* liveness the connection was idle long enough to be reset first.
HealthCheckPasses(t, liveness) ==
    /\ pc[t] = "check"
    /\ ~Broken(cand[t])
    /\ is_reset' = IF liveness THEN [is_reset EXCEPT ![cand[t]] = TRUE]
                   ELSE is_reset
    /\ held' = [held EXCEPT ![t] = cand[t]]
    /\ Leave(t)
    /\ last' = Done("acquire", t, cand[t], "pooled")
    /\ UNCHANGED <<connections, reservations, in_use, closed, defunct, stale>>

\* health_check fails (broken, or the liveness reset fails with OSError,
\* ServiceUnavailable or SessionExpired): the connection is closed and
\* removed from the pool, and the scan starts again.
HealthCheckFails(t, liveness) ==
    /\ pc[t] = "check"
    /\ Broken(cand[t]) \/ liveness
    /\ CloseAll({cand[t]})
    /\ connections' = [connections EXCEPT ![taddr[t]] = SeqRemove(@, cand[t])]
    /\ cand' = [cand EXCEPT ![t] = NoConn]
    /\ pc' = [pc EXCEPT ![t] = "scan"]
    /\ last' = Done("evict", t, cand[t], "removed")
    /\ UNCHANGED <<reservations, in_use, taddr, held, expired>>

\* The liveness reset of health_check fails with an error health_check does
\* not catch: _acquire raises it, and the connection stays as it is.
HealthCheckRaises(t) ==
    /\ pc[t] = "check"
    /\ ~Broken(cand[t])
    /\ defunct' = [defunct EXCEPT ![cand[t]] = TRUE]
    /\ is_reset' = [is_reset EXCEPT ![cand[t]] = FALSE]
    /\ Leave(t)
    /\ last' = Done("acquire", t, cand[t], "raised")
    /\ UNCHANGED <<connections, reservations, in_use, closed, stale, held>>

\* _acquire_new_later, the admission test.
CanCreateNewConnection_ZeroIsInfinite(a) ==
    max_pool_size <= 0
        \/ Len(connections[a]) + reservations[a] < max_pool_size

CanCreateNewConnection(a) ==
    max_pool_size < 0
        \/ Len(connections[a]) + reservations[a] < max_pool_size

\* _acquire_new_later, the reservation counter after the admission test:
\* the counter is incremented whatever the test said.
ReservationsAfterAdmission(a, admitted) ==
    [reservations EXCEPT ![a] = @ + 1]

\* _acquire, the block under the lock after a scan that found nothing: a
\* reservation is taken; admitted, the task goes on to open a connection;
\* refused, it fails when the deadline has expired and else waits on the
\* pool condition.
AcquireNewLater(t) ==
    /\ pc[t] = "new"
    /\ reservations[taddr[t]] < MaxReservations
    /\ LET a == taddr[t]
           admitted == CanCreateNewConnection(a)
       IN
        /\ reservations' = ReservationsAfterAdmission(a, admitted)
        /\ IF admitted
           THEN /\ pc' = [pc EXCEPT ![t] = "open"]
                /\ expired' = [expired EXCEPT ![t] = FALSE]
                /\ last' = NoOp
                /\ UNCHANGED <<taddr, cand>>
           ELSE IF expired[t]
           THEN /\ Leave(t)
                /\ last' = Done("acquire", t, NoConn, "timeout")
           ELSE /\ pc' = [pc EXCEPT ![t] = "wait"]
                /\ last' = NoOp
                /\ UNCHANGED <<taddr, cand, expired>>
    /\ UNCHANGED <<connections, in_use, closed, defunct, stale, is_reset,
                   held>>

\* cond.wait(timeout) returns False: _acquire raises the timeout error.
WaitTimesOut(t) ==
    /\ pc[t] = "wait"
    /\ Leave(t)
    /\ last' = Done("acquire", t, NoConn, "timeout")
    /\ UNCHANGED <<connections, reservations, in_use, closed, defunct, stale,
                   is_reset, held>>

\* The connection objects that do not exist.
FreeConns == {c \in Conns : closed[c] /\ c \notin Pooled
                            /\ \A t \in Tasks : cand[t] # c /\ held[t] # c}

\* connection_creator, the opener succeeds: the connection is marked in
\* use, the reservation is given back and the connection joins the pool.
OpenSucceeds(t) ==
    /\ pc[t] = "open"
    /\ FreeConns # {}
    /\ LET c == Min(FreeConns)
           a == taddr[t]
       IN
        /\ closed' = [closed EXCEPT ![c] = FALSE]
        /\ is_reset' = [is_reset EXCEPT ![c] = TRUE]
        /\ in_use' = [in_use EXCEPT ![c] = TRUE]
        /\ reservations' = [reservations EXCEPT ![a] = @ - 1]
        /\ connections' = [connections EXCEPT ![a] = Append(@, c)]
        /\ held' = [held EXCEPT ![t] = c]
        /\ last' = Done("acquire", t, c, "opened")
    /\ Leave(t)
    /\ UNCHANGED <<defunct, stale>>

\* deactivate of AsyncIOPool: the idle connections of the address are
\* removed from the pool and closed.
IdleOf(a) == {c \in Range(connections[a]) : ~in_use[c]}

KeepInUse_All(c) == TRUE

KeepInUse(c) == in_use[c]

PoolDeactivate(a) ==
    /\ connections' = [connections EXCEPT ![a] = SelectSeq(@, KeepInUse)]
    /\ CloseAll(IdleOf(a))

\* connection_creator, the opener fails.  ServiceUnavailable deactivates
\* the address first; the reservation is given back in the finally block.
OpenFails(t, unavailable) ==
    /\ pc[t] = "open"
    /\ reservations' = [reservations EXCEPT ![taddr[t]] = @ - 1]
    /\ IF unavailable
       THEN PoolDeactivate(taddr[t])
       ELSE UNCHANGED <<connections, closed, defunct, stale, is_reset>>
    /\ Leave(t)
    /\ last' = Done("acquire", t, NoConn,
                    IF unavailable THEN "unavailable" ELSE "error")
    /\ UNCHANGED <<in_use, held>>

\* The holder of a connection uses it: the connection is no longer reset,
\* and it may break (defunct) while in use.
Use(t, breaks) ==
    /\ pc[t] = "idle"
    /\ held[t] # NoConn
    /\ ~defunct[held[t]]
    /\ is_reset[held[t]] \/ breaks
    /\ is_reset' = [is_reset EXCEPT ![held[t]] = FALSE]
    /\ defunct' = [defunct EXCEPT ![held[t]] = breaks]
    /\ last' = NoOp
    /\ UNCHANGED <<connections, reservations, in_use, closed, stale, pc,
                   taddr, cand, held, expired>>

\* release, the reset it sends: needed unless the connection is defunct,
\* closed or already reset.
NeedsReset(c) == ~(defunct[c] \/ closed[c] \/ is_reset[c])

\* release, connection.in_use after the reset was attempted.
InUseAfterRelease_KeepOnError(c, r) ==
    [in_use EXCEPT ![c] = (r = "protocol_error")]

InUseAfterRelease(c, r) == [in_use EXCEPT ![c] = FALSE]

\* release, cond.notify_all(): every task waiting on the condition wakes
\* up and scans the pool again.
NotifyAll == [t \in Tasks |-> IF pc[t] = "wait" THEN "scan" ELSE pc[t]]

ResetOutcomes == {"ok", "failure", "protocol_error", "other_error"}

\* release(connection) by the task that holds it.  The reset outcome r is
\* "ok", an error release catches (Neo4jError, DriverError, BoltError), or
\* an error it does not catch, which release raises before in_use is
\* cleared and before the condition is notified.  An error release catches
\* is the failure of the connection ("protocol_error": it is defunct
\* afterwards) or the answer of the server to the reset ("failure": the
\* connection is neither defunct nor reset afterwards).
Release(t, r) ==
    /\ pc[t] = "idle"
    /\ held[t] # NoConn
    /\ LET c == held[t]
           o == IF NeedsReset(c) THEN r ELSE "none"
       IN
        /\ ~NeedsReset(c) => r = "ok"
        /\ is_reset' = IF o = "ok" THEN [is_reset EXCEPT ![c] = TRUE]
                       ELSE is_reset
        /\ defunct' = IF o \in {"protocol_error", "other_error"}
                      THEN [defunct EXCEPT ![c] = TRUE]
                      ELSE defunct
        /\ IF o = "other_error"
           THEN /\ UNCHANGED <<in_use, pc, held>>
                /\ last' = Done("release", t, c, "raised")
           ELSE /\ in_use' = InUseAfterRelease(c, o)
                /\ pc' = NotifyAll
                /\ held' = [held EXCEPT ![t] = NoConn]
                /\ last' = Done("release", t, c, o)
    /\ UNCHANGED <<connections, reservations, closed, stale, taddr, cand,
                   expired>>

\* release(connection) once more, by the task that has just released it:
\* no acquire has taken place in between.
ReleaseAgain(r) ==
    /\ last.op = "release"
    /\ last.res # "raised"
    /\ LET c == last.conn
           o == IF NeedsReset(c) THEN r ELSE "none"
       IN
        /\ ~NeedsReset(c) => r = "ok"
        /\ is_reset' = IF o = "ok" THEN [is_reset EXCEPT ![c] = TRUE]
                       ELSE is_reset
        /\ defunct' = IF o \in {"protocol_error", "other_error"}
                      THEN [defunct EXCEPT ![c] = TRUE]
                      ELSE defunct
        /\ IF o = "other_error"
           THEN /\ UNCHANGED <<in_use, pc>>
                /\ last' = Done("release_again", last.task, c, "raised")
           ELSE /\ in_use' = InUseAfterRelease(c, o)
                /\ pc' = NotifyAll
                /\ last' = Done("release_again", last.task, c, o)
    /\ UNCHANGED <<connections, reservations, closed, stale, taddr, cand,
                   held, expired>>

\* mark_all_stale
MarkAllStale ==
    /\ \E c \in Pooled : ~stale[c]
    /\ stale' = [c \in Conns |-> stale[c] \/ c \in Pooled]
    /\ last' = NoOp
    /\ UNCHANGED <<connections, reservations, in_use, closed, defunct,
                   is_reset, pc, taddr, cand, held, expired>>

\* deactivate(address) of AsyncIOPool, called from outside an acquire.
Deactivate(a) ==
    /\ IdleOf(a) # {}
    /\ PoolDeactivate(a)
    /\ last' = Done("deactivate", 0, NoConn, a)
    /\ UNCHANGED <<reservations, in_use, pc, taddr, cand, held, expired>>

(***************************************************************************)
(* The routing pool, AsyncNeo4jPool.  A task runs acquire(access_mode,     *)
(* database): it takes the refresh lock, makes the routing table fresh     *)
(* (trying one router per step), gives the lock back, then selects an      *)
(* address and acquires a connection to it.  A step is the code between    *)
(* two points where the task may be suspended.  deactivate and             *)
(* on_write_failure are called by connection error handlers at any time    *)
(* and take no lock.  Of the pool only the number of connections in use    *)
(* per address is kept.  The age of a routing table is "fresh" until its   *)
(* ttl has passed, then "expired", and "purge" once the purge delay has    *)
(* passed as well.                                                         *)
(***************************************************************************)
NumRoutingTasks == 2    \* concurrent tasks using the routing pool
MaxBusy == 1            \* connections in use per address

RTasks == 1..NumRoutingTasks
R0 == "r0"              \* first_initial_routing_address
RAddrs == {"r0", "s1"}
DefaultDb == "default"  \* workspace_config.database
Dbs == {"default", "neo4j"}
Modes == {"READ", "WRITE"}
NoTable == [routers |-> {}, readers |-> {}, writers |-> {},
            age |-> "none", iww |-> FALSE]
NoPlan == [first |-> FALSE, todo |-> {}, final |-> FALSE, routers |-> {},
           prefer |-> FALSE,
           tried |-> {}, expired |-> FALSE]

\* The servers of no reply.
NoReply == [routers |-> {"none"}, readers |-> {"none"}, writers |-> {"none"}]

RNoOp == [op |-> "none", mode |-> "none", db |-> "none", addr |-> "none",
          res |-> "none", cause |-> "none", tried |-> {}, expired |-> FALSE,
          reply |-> NoReply]
RDone(o, m, d, a, r) ==
    [op |-> o, mode |-> m, db |-> d, addr |-> a, res |-> r, cause |-> "none",
     tried |-> {}, expired |-> FALSE, reply |-> NoReply]

\* An error raised from another one (raise ... from err).
RRaised(o, m, d, r, err) ==
    [op |-> o, mode |-> m, db |-> d, addr |-> "none", res |-> r,
     cause |-> err, tried |-> {}, expired |-> FALSE, reply |-> NoReply]

\* RoutingTable(database, routers): a table that was never updated.
NewTable == [routers |-> {R0}, readers |-> {}, writers |-> {},
             age |-> "expired", iww |-> TRUE]

\* The replies a router may give to a routing request: its servers, its ttl
\* (0 or positive) and the database it names (db = "none": it names none).
ReplyServers ==
    { [routers |-> {"r0", "s1"}, readers |-> {"r0", "s1"}, writers |-> {"s1"}],
      [routers |-> {"r0", "s1"}, readers |-> {"s1"}, writers |-> {}],
      [routers |-> {"r0", "s1"}, readers |-> {}, writers |-> {"s1"}],
      [routers |-> {}, readers |-> {"s1"}, writers |-> {"s1"}] }

Replies ==
    { [routers |-> s.routers, readers |-> s.readers, writers |-> s.writers,
       ttl |-> l, db |-> d] :
        s \in ReplyServers, l \in {0, 1}, d \in {"none"} \cup Dbs }

\* RoutingTable.is_fresh(readonly)
IsFresh_WhateverServers(tab, readonly) == tab.age = "fresh"

IsFresh(tab, readonly) ==
    /\ tab.age = "fresh"
    /\ (IF readonly THEN tab.readers ELSE tab.writers) # {}

\* RoutingTable.should_be_purged_from_memory()
ShouldBePurged(tab) == tab.age = "purge"

\* RoutingTable.servers()
ServersOf(tab) == tab.routers \cup tab.readers \cup tab.writers

\* RoutingTable.update(new_routing_table)
UpdatedTable(rep) ==
    [routers |-> rep.routers, readers |-> rep.readers,
     writers |-> rep.writers,
     age |-> IF rep.ttl > 0 THEN "fresh" ELSE "expired",
     iww |-> rep.writers = {}]

\* get_or_create_routing_table(database), the tables after the call
WithTable(tabs, d) ==
    IF tabs[d] = NoTable THEN [tabs EXCEPT ![d] = NewTable] ELSE tabs

\* fetch_routing_table: the reply is turned into a table only if it has a
\* router and a reader; writers may be missing.
FetchAccepts_NoReaderNeeded(rep) == rep.routers # {}

FetchAccepts(rep) == rep.routers # {} /\ rep.readers # {}

\* deactivate of AsyncNeo4jPool, the routing tables after it: the address
\* is discarded from the routers, readers and writers of every database.
TablesWithout_RoutersKept(tabs, a) ==
    [d \in Dbs |-> [tabs[d] EXCEPT !.readers = @ \ {a},
                                   !.writers = @ \ {a}]]

TablesWithout(tabs, a) ==
    [d \in Dbs |-> [tabs[d] EXCEPT !.routers = @ \ {a},
                                   !.readers = @ \ {a},
                                   !.writers = @ \ {a}]]

\* on_write_failure, the routing tables after it.
TablesWithoutWriter(tabs, a) ==
    [d \in Dbs |-> [tabs[d] EXCEPT !.writers = @ \ {a}]]

\* The state of AsyncNeo4jPool after __init__: a table for the default
\* database with the initial router, and no connection.
RouteInit ==
    /\ routing_tables = [d \in Dbs |->
                            IF d = DefaultDb THEN NewTable ELSE NoTable]
    /\ refresh_lock = 0
    /\ rpc = [t \in RTasks |-> "idle"]
    /\ rmode = [t \in RTasks |-> "none"]
    /\ rdb = [t \in RTasks |-> "none"]
    /\ rplan = [t \in RTasks |-> NoPlan]
    /\ rcur = [t \in RTasks |-> "none"]
    /\ rnewdb = [t \in RTasks |-> "none"]
    /\ rpool = [a \in RAddrs |-> 0]
    /\ removed = {}
    /\ rlast = RNoOp
    /\ ridle = {}

\* acquire returns or raises: its locals go out of scope.
RLeave(t) ==
    /\ rpc' = [rpc EXCEPT ![t] = "idle"]
    /\ rmode' = [rmode EXCEPT ![t] = "none"]
    /\ rdb' = [rdb EXCEPT ![t] = "none"]
    /\ rplan' = [rplan EXCEPT ![t] = NoPlan]
    /\ rcur' = [rcur EXCEPT ![t] = "none"]
    /\ rnewdb' = [rnewdb EXCEPT ![t] = "none"]

\* acquire(access_mode, ..., database, ...) up to its first suspension.
\* _refresh_lock_deadline takes the lock, which is free.
\* ensure_routing_table_is_fresh looks the table up or creates it; fresh,
\* the call returns False and acquire gives the lock back; else
\* update_routing_table copies the routers to try.
REnsure(t, m, d) ==
    /\ rpc[t] = "idle"
    /\ refresh_lock = 0
    /\ LET tabs == WithTable(routing_tables, d)
           tab == tabs[d]
       IN
        /\ routing_tables' = tabs
        /\ IF IsFresh(tab, m = "READ")
           THEN /\ rpc' = [rpc EXCEPT ![t] = "select"]
                /\ rlast' = RDone("ensure", m, d, "none", "False")
                /\ UNCHANGED <<refresh_lock, rplan>>
           ELSE /\ rplan' = [rplan EXCEPT ![t] =
                                [first |-> tab.iww,
                                 todo |-> tab.routers \ {R0},
                                 final |-> ~tab.iww,
                                 prefer |-> tab.iww,
                                 routers |-> tab.routers,
                                 tried |-> {},
                                 expired |-> FALSE]]
                /\ rpc' = [rpc EXCEPT ![t] = "update"]
                /\ refresh_lock' = t
                /\ rlast' = RNoOp
    /\ rmode' = [rmode EXCEPT ![t] = m]
    /\ rdb' = [rdb EXCEPT ![t] = d]
    /\ UNCHANGED <<rcur, rnewdb, rpool, removed>>

\* acquire, _refresh_lock_deadline: another task keeps the lock until the
\* deadline, and acquire raises.
RLockTimesOut(t, m, d) ==
    /\ rpc[t] = "idle"
    /\ refresh_lock # 0
    /\ rlast' = RDone("acquire", m, d, "none", "ClientError")
    /\ UNCHANGED <<routing_tables, refresh_lock, rpc, rmode, rdb, rplan,
                   rcur, rnewdb, rpool, removed>>

\* update_routing_table, the routers it may try next: the first initial
\* routing address first if the table was initialized without writers,
\* then the other existing routers, then the first initial routing address
\* if it was not tried first.
NextRouters_InitialLast(plan) ==
    IF plan.todo # {} THEN plan.todo
    ELSE IF plan.first \/ plan.final THEN {R0}
    ELSE {}

NextRouters(plan) ==
    IF plan.first THEN {R0}
    ELSE IF plan.todo # {} THEN plan.todo
    ELSE IF plan.final THEN {R0}
    ELSE {}

\* The routers update_routing_table has still to try, in whatever call.
RemainingRouters(plan) ==
    (IF plan.first \/ plan.final THEN {R0} ELSE {}) \cup plan.todo

PlanWithout_RestOfCall(plan, r) ==
    IF plan.first THEN [plan EXCEPT !.first = FALSE]
    ELSE [plan EXCEPT !.todo = {}, !.final = FALSE]

PlanWithout(plan, r) ==
    IF plan.first THEN [plan EXCEPT !.first = FALSE]
    ELSE IF plan.todo # {} THEN [plan EXCEPT !.todo = @ \ {r}]
    ELSE [plan EXCEPT !.final = FALSE]

\* The servers a reply names.
ServersIn(rep) ==
    [routers |-> rep.routers, readers |-> rep.readers,
     writers |-> rep.writers]

\* _update_routing_table_from, a router gives a reply fetch_routing_table
\* accepts: the table of the database the reply names (the requested one if
\* it names none) is looked up or created and updated.
RFetchSucceeds(t, r, rep) ==
    /\ rpc[t] = "update"
    /\ r \in NextRouters(rplan[t])
    /\ ~rplan[t].expired
    /\ FetchAccepts(rep)
    /\ LET d == IF rep.db = "none" THEN rdb[t] ELSE rep.db IN
        /\ routing_tables' = [routing_tables EXCEPT ![d] = UpdatedTable(rep)]
        /\ rnewdb' = [rnewdb EXCEPT ![t] = d]
        /\ rlast' = [RDone("update", rmode[t], d, r,
                           IF rep.ttl > 0 THEN "ttl" ELSE "no ttl")
                        EXCEPT !.reply = ServersIn(rep),
                               !.tried = rplan[t].tried]
    /\ rplan' = [rplan EXCEPT ![t] = NoPlan]
    /\ rpc' = [rpc EXCEPT ![t] = "pool"]
    /\ UNCHANGED <<refresh_lock, rmode, rdb, rcur, rpool, removed>>

\* _update_routing_table_from, a router yields no table (the resolver gives
\* no address, the connection fails with ServiceUnavailable or
\* SessionExpired, or the reply lacks routers or readers): the router is
\* deactivated and the next one is tried.  Once the deadline has expired
\* only the first of these can still happen.
RFetchFails(t, r) ==
    /\ rpc[t] = "update"
    /\ r \in NextRouters(rplan[t])
    /\ routing_tables' = TablesWithout(routing_tables, r)
    /\ removed' = removed \cup {r}
    /\ rplan' = [rplan EXCEPT ![t] =
                    [PlanWithout(@, r) EXCEPT !.tried = @ \cup {r}]]
    /\ rlast' = RNoOp
    /\ UNCHANGED <<refresh_lock, rpc, rmode, rdb, rcur, rnewdb, rpool>>

\* _update_routing_table_from, a router gives a reply fetch_routing_table
\* does not accept: fetch_routing_table returns None, the router is
\* deactivated and the next one is tried.
RFetchRejects(t, r, rep) ==
    /\ rpc[t] = "update"
    /\ r \in NextRouters(rplan[t])
    /\ ~rplan[t].expired
    /\ ~FetchAccepts(rep)
    /\ routing_tables' = TablesWithout(routing_tables, r)
    /\ removed' = removed \cup {r}
    /\ rplan' = [rplan EXCEPT ![t] =
                    [PlanWithout(@, r) EXCEPT !.tried = @ \cup {r}]]
    /\ rlast' = [RDone("fetch", rmode[t], rdb[t], r, "None")
                    EXCEPT !.reply = ServersIn(rep)]
    /\ UNCHANGED <<refresh_lock, rpc, rmode, rdb, rcur, rnewdb, rpool>>

\* _update_routing_table_from, the address of a router is resolved and the
\* deadline has expired: the call returns False, the routers left of this
\* call are not tried, and update_routing_table goes on with its next call.
PlanWithoutGroup(plan) ==
    IF plan.first THEN [plan EXCEPT !.first = FALSE, !.expired = TRUE]
    ELSE IF plan.todo # {} THEN [plan EXCEPT !.todo = {}, !.expired = TRUE]
    ELSE [plan EXCEPT !.final = FALSE, !.expired = TRUE]

RDeadlineExpired(t) ==
    /\ rpc[t] = "update"
    /\ NextRouters(rplan[t]) # {}
    /\ rplan' = [rplan EXCEPT ![t] = PlanWithoutGroup(@)]
    /\ rlast' = RNoOp
    /\ UNCHANGED <<routing_tables, refresh_lock, rpc, rmode, rdb, rcur,
                   rnewdb, rpool, removed>>

\* update_routing_table fails: no router is left to try
\* (ServiceUnavailable), or a router answered with an error that is fatal
\* during discovery.  acquire raises and gives the lock back.
RUpdateFails(t, why) ==
    /\ rpc[t] = "update"
    /\ IF why = "ServiceUnavailable"
       THEN NextRouters(rplan[t]) = {}
       ELSE NextRouters(rplan[t]) # {} /\ ~rplan[t].expired
    /\ refresh_lock' = 0
    /\ RLeave(t)
    /\ rlast' = [RDone("acquire", rmode[t], rdb[t], "none", why)
                    EXCEPT !.tried = rplan[t].tried,
                           !.expired = rplan[t].expired]
    /\ UNCHANGED <<routing_tables, rpool, removed>>

\* ensure_routing_table_is_fresh after the update: update_connection_pool
\* looks up the table of the requested database (to close the idle
\* connections to other addresses), the tables to purge are deleted, and
\* True is returned; acquire gives the lock back.
PurgedTables(tabs) ==
    [d \in Dbs |-> IF ShouldBePurged(tabs[d]) /\ d # DefaultDb
                   THEN NoTable ELSE tabs[d]]

REnsureReturnsTrue(t) ==
    /\ rpc[t] = "pool"
    /\ routing_tables' = PurgedTables(WithTable(routing_tables, rdb[t]))
    /\ refresh_lock' = 0
    /\ rpc' = [rpc EXCEPT ![t] = "select"]
    /\ rnewdb' = [rnewdb EXCEPT ![t] = "none"]
    /\ rlast' = RDone("ensure", rmode[t], rdb[t], rnewdb[t], "True")
    /\ UNCHANGED <<rmode, rdb, rplan, rcur, rpool, removed>>

\* in_use_connection_count(address)
InUseCount(a) == rpool[a]

\* _select_address, the addresses to choose from: of the readers (READ) or
\* writers (WRITE) of the database, those with the fewest connections in
\* use.
Candidates(m, d) ==
    IF m = "READ" THEN routing_tables[d].readers
    ELSE routing_tables[d].writers

Selectable_AnyServer(m, d) == RAddrs

Selectable_WhateverUse(m, d) == Candidates(m, d)

Selectable(m, d) ==
    {a \in Candidates(m, d) :
        \A b \in Candidates(m, d) : InUseCount(a) <= InUseCount(b)}

\* _select_address, the error it raises when there is no address to choose
\* from.
NoAddressError_Swapped(m) ==
    IF m = "READ" THEN "WriteServiceUnavailable"
    ELSE "ReadServiceUnavailable"

NoAddressError(m) ==
    IF m = "READ" THEN "ReadServiceUnavailable"
    ELSE "WriteServiceUnavailable"

\* acquire, one turn of its loop up to the pool acquire: _select_address
\* takes the refresh lock while it reads the table.  With no address for
\* the access mode acquire raises SessionExpired; with no table for the
\* database the lookup raises KeyError.
RSelect(t) ==
    /\ rpc[t] = "select"
    /\ refresh_lock = 0
    /\ IF routing_tables[rdb[t]] = NoTable
       THEN /\ RLeave(t)
            /\ rlast' = RDone("acquire", rmode[t], rdb[t], "none",
                              "KeyError")
       ELSE IF Selectable(rmode[t], rdb[t]) = {}
       THEN /\ RLeave(t)
            /\ rlast' = [RRaised("acquire", rmode[t], rdb[t],
                                 "SessionExpired", NoAddressError(rmode[t]))
                            EXCEPT !.tried = rplan[t].tried]
       ELSE \E a \in Selectable(rmode[t], rdb[t]) :
            /\ rcur' = [rcur EXCEPT ![t] = a]
            /\ rpc' = [rpc EXCEPT ![t] = "conn"]
            /\ rlast' = RDone("select", rmode[t], rdb[t], a, "none")
            /\ UNCHANGED <<rmode, rdb, rplan, rnewdb>>
    /\ UNCHANGED <<routing_tables, refresh_lock, rpool, removed>>

\* acquire, _acquire(address) returns a connection.
RConnectSucceeds(t) ==
    /\ rpc[t] = "conn"
    /\ rpool[rcur[t]] < MaxBusy
    /\ rpool' = [rpool EXCEPT ![rcur[t]] = @ + 1]
    /\ RLeave(t)
    /\ rlast' = [RDone("acquire", rmode[t], rdb[t], rcur[t], "connection")
                    EXCEPT !.tried = rplan[t].tried]
    /\ UNCHANGED <<routing_tables, refresh_lock, removed>>

\* acquire, _acquire(address) raises ServiceUnavailable or SessionExpired:
\* the address is deactivated and the loop selects again.  The addresses
\* the loop of this call has tried are remembered in tried.
RConnectUnavailable(t) ==
    /\ rpc[t] = "conn"
    /\ routing_tables' = TablesWithout(routing_tables, rcur[t])
    /\ removed' = removed \cup {rcur[t]}
    /\ rcur' = [rcur EXCEPT ![t] = "none"]
    /\ rpc' = [rpc EXCEPT ![t] = "select"]
    /\ rplan' = [rplan EXCEPT ![t].tried = @ \cup {rcur[t]}]
    /\ rlast' = RNoOp
    /\ UNCHANGED <<refresh_lock, rmode, rdb, rnewdb, rpool>>

\* acquire, _acquire(address) raises another error (the acquisition
\* timeout): acquire raises it.
RConnectRaises(t) ==
    /\ rpc[t] = "conn"
    /\ RLeave(t)
    /\ rlast' = RDone("acquire", rmode[t], rdb[t], rcur[t], "ClientError")
    /\ UNCHANGED <<routing_tables, refresh_lock, rpool, removed>>

\* release(connection) of a connection to the address.
RRelease(a) ==
    /\ rpool[a] > 0
    /\ rpool' = [rpool EXCEPT ![a] = @ - 1]
    /\ rlast' = RNoOp
    /\ UNCHANGED <<routing_tables, refresh_lock, rpc, rmode, rdb, rplan,
                   rcur, rnewdb, removed>>

\* deactivate(address) of AsyncNeo4jPool, called by the error handler of a
\* connection.
RDeactivate(a) ==
    /\ a \in UNION {ServersOf(routing_tables[d]) : d \in Dbs}
    /\ routing_tables' = TablesWithout(routing_tables, a)
    /\ removed' = removed \cup {a}
    /\ rlast' = RNoOp
    /\ UNCHANGED <<refresh_lock, rpc, rmode, rdb, rplan, rcur, rnewdb, rpool>>

\* on_write_failure(address) of AsyncNeo4jPool, called by the error handler
\* of a connection.
ROnWriteFailure(a) ==
    /\ a \in UNION {routing_tables[d].writers : d \in Dbs}
    /\ routing_tables' = TablesWithoutWriter(routing_tables, a)
    /\ rlast' = RDone("on_write_failure", "none", "none", a, "none")
    /\ UNCHANGED <<refresh_lock, rpc, rmode, rdb, rplan, rcur, rnewdb, rpool,
                   removed>>

\* Time passes: the ttl of a table passes, then its purge delay.  The table
\* of the default database is never purged, so its purge delay is not
\* followed.
RTimePasses(d) ==
    /\ routing_tables[d].age \in
           (IF d = DefaultDb THEN {"fresh"} ELSE {"fresh", "expired"})
    /\ routing_tables' = [routing_tables EXCEPT ![d].age =
                             IF @ = "fresh" THEN "expired" ELSE "purge"]
    /\ rlast' = RNoOp
    /\ UNCHANGED <<refresh_lock, rpc, rmode, rdb, rplan, rcur, rnewdb, rpool,
                   removed>>

(***************************************************************************)
(* The session, AsyncSession over Workspace.  One caller uses the session, *)
(* one operation after the other; an operation is one step, with the       *)
(* outcomes of its I/O chosen by the step, except _run_transaction, which  *)
(* is left between its steps while the user function runs and while it     *)
(* sleeps before the next attempt.  The code of an operation is followed   *)
(* statement by statement over a record of the session fields; the         *)
(* field err of the record holds the error that is propagating, if any.    *)
(* The transaction and the result call the handlers the session gave them  *)
(* when they complete or fail.                                             *)
(***************************************************************************)
NumSessionConns == 2    \* connections of the pool the session uses
MaxBookmark == 2        \* distinct bookmarks the server hands out
MaxAttempts == 2        \* attempts of one _run_transaction

SConns == 1..NumSessionConns
Bookmarks == 0..MaxBookmark     \* 0: no bookmark
NoTx == [kind |-> "none", conn |-> NoConn, closed |-> FALSE,
         committed |-> FALSE, failed |-> FALSE, bookmark |-> 0]
NoResult == [set |-> FALSE, conn |-> NoConn]
Messages == {"BEGIN", "RUN", "PULL", "DISCARD", "COMMIT", "ROLLBACK"}

\* The errors an operation may raise: a DriverError or Neo4jError that
\* is_retryable() ("retryable") or not ("fatal"), another Exception
\* ("other"), or an exception that is no Exception ("base").
IOErrors == {"retryable", "fatal"}
UserErrors == {"retryable", "fatal", "other", "base"}

\* The outcomes of the I/O of one operation: of draining or consuming what
\* is outstanding (pre), of the home database discovery (disc: the server
\* names the database, names none, or the update raises), of the pool
\* acquire (acq: a connection, or NoConn if it raises), of the message of the
\* operation (io), the kind of the error raised by the I/O that fails (err),
\* the bookmark the server reports (b), and whether the retry time is over
\* (timeout).
AllOutcomes ==
    [pre : {"ok", "more", "error"}, disc : {"ok", "unnamed", "error"},
     acq : {NoConn} \cup SConns, io : {"ok", "error"}, err : IOErrors,
     b : Bookmarks, timeout : BOOLEAN]

\* Outcomes that differ only in I/O that does not take place are the same
\* outcome: one of them is kept.
NoPre(o) == o.pre = "ok" /\ o.b = 0
NoConnect(o) == o.disc = "ok" /\ o.acq = 1
NoIo(o) == o.io = "ok"
OneError(o) ==
    /\ o.pre = "error" \/ o.acq = NoConn \/ o.io = "error"
        \/ o.err = "retryable"
    /\ o.pre = "more" => o.b = 0
StopsAtFailure(o) ==
    /\ o.pre = "error" => NoConnect(o) /\ NoIo(o) /\ o.b = 0
    /\ o.disc = "error" => o.acq = 1 /\ NoIo(o) /\ o.err = "retryable"
    /\ o.acq = NoConn => NoIo(o)

\* run, begin_transaction: consume, connect, send
ConnectOutcomes ==
    {o \in AllOutcomes : OneError(o) /\ StopsAtFailure(o) /\ o.pre # "more"
                         /\ ~o.timeout}
\* an attempt of _run_transaction: drain, connect, send, retry or not
AttemptOutcomes ==
    {o \in AllOutcomes : OneError(o) /\ StopsAtFailure(o)}
\* consume, last_bookmarks
ResultOutcomes ==
    {o \in AllOutcomes : OneError(o) /\ NoConnect(o) /\ NoIo(o)
                         /\ o.pre # "more" /\ ~o.timeout}
\* commit, rollback, and with the retry the end of the user function
TxOutcomes ==
    {o \in AllOutcomes : OneError(o) /\ o.pre = "ok" /\ NoConnect(o)}
\* close: consume or drain, roll back
CloseOutcomes ==
    {o \in AllOutcomes : OneError(o) /\ NoConnect(o) /\ ~o.timeout}

SNoOp == [op |-> "none", res |-> "none", err |-> "none", src |-> "none",
          sent |-> {}, conn |-> NoConn, txopen |-> FALSE, tx |-> NoTx,
          uerr |-> "none", disc |-> "none", before |-> "never",
          acquired |-> "no acquire", ended |-> {}, acquires |-> <<>>,
          releases |-> 0, begin_mode |-> "none"]

\* The session fields at the start of an operation.
Start ==
    [connection |-> s_connection, transaction |-> s_transaction,
     auto_result |-> s_auto_result, bookmarks |-> s_bookmarks,
     closed |-> s_closed, state_failed |-> FALSE,
     cached_database |-> s_cached_database, database |-> s_database,
     discovery |-> s_discovery, disc |-> "none", acquired |-> "no acquire",
     ended |-> {}, acquires |-> <<>>, releases |-> 0, begin_mode |-> "none",
     owner |-> owner, txo |-> s_transaction, sent |-> {}, err |-> "none",
     src |-> "none"]

Send(s, ms) == [s EXCEPT !.sent = @ \cup ms]
Raise(s, kind, where) == [s EXCEPT !.err = kind, !.src = where]

\* Workspace._disconnect(): the held connection is released to the pool.
Disconnect(s) ==
    IF s.connection # NoConn
    THEN [s EXCEPT !.owner[s.connection] = "free", !.connection = NoConn,
                   !.releases = @ + 1]
    ELSE s

\* An auto-commit result ("result") or a transaction ("commit") completes
\* successfully and the server reports the bookmark b (0: none).
Ended(s, kind, b) ==
    [s EXCEPT !.ended = @ \cup {[kind |-> kind, b |-> b]}]

\* AsyncSession._collect_bookmark(bookmark)
CollectBookmark_Always(s, b) == [s EXCEPT !.bookmarks = b]

CollectBookmark(s, b) == IF b # 0 THEN [s EXCEPT !.bookmarks = b] ELSE s

\* AsyncSession._result_closed()
ResultClosed(s, b) ==
    IF s.auto_result.set
    THEN Disconnect([CollectBookmark(s, b) EXCEPT !.auto_result = NoResult])
    ELSE s

\* AsyncSession._result_error(error)
ResultError(s) ==
    IF s.auto_result.set
    THEN Disconnect([s EXCEPT !.auto_result = NoResult])
    ELSE s

\* AsyncSession._transaction_closed_handler()
TransactionClosedHandler(s) ==
    IF s.transaction # NoTx
    THEN Disconnect([CollectBookmark(s, s.transaction.bookmark)
                        EXCEPT !.transaction = NoTx])
    ELSE s

\* AsyncSession._transaction_error_handler(error)
TransactionErrorHandler(s) ==
    IF s.transaction # NoTx
    THEN Disconnect([s EXCEPT !.transaction = NoTx])
    ELSE s

\* The transaction object the operation works on changes; the session
\* sees the change if the transaction is attached to it.
SetTx(s, t) ==
    [s EXCEPT !.txo = t, !.transaction = IF @ # NoTx THEN t ELSE @]

\* AsyncResult.consume() and AsyncResult._buffer_all() of the auto-commit
\* result: the rest of the stream is discarded or pulled; the result
\* completes and calls its on_closed handler, or it fails, calls its
\* on_error handler and raises.
Consume(s, o, m) ==
    IF o.pre # "error"
    THEN ResultClosed(Ended(Send(s, {m}), "result", o.b), o.b)
    ELSE Raise(ResultError(Send(s, {m})), o.err, "result")

\* AsyncResult._run(...) of a new auto-commit result on the held connection.
ResultRun(s, o) ==
    LET s1 == Send([s EXCEPT !.auto_result =
                        [set |-> TRUE, conn |-> s.connection]],
                   {"RUN", "PULL"})
    IN IF o.io = "ok" THEN s1 ELSE Raise(ResultError(s1), o.err, "run")

\* Workspace._connect: a held connection is drained (send_all, fetch_all)
\* and released.  The drain completes an auto-commit result that is
\* outstanding on the connection, or leaves it with more records to pull.
ReleasedBeforeAcquire_Kept(s) == s

ReleasedBeforeAcquire(s) == Disconnect(s)

Drain(s, o) ==
    IF s.connection = NoConn THEN s
    ELSE IF s.auto_result.set /\ s.auto_result.conn = s.connection
    THEN CASE o.pre = "ok" ->
                  ReleasedBeforeAcquire(
                      ResultClosed(Ended(s, "result", o.b), o.b))
           [] o.pre = "more" -> ReleasedBeforeAcquire(s)
           [] OTHER -> Raise(ResultError(s), o.err, "drain")
    ELSE IF o.pre = "error" THEN Raise(s, o.err, "drain")
    ELSE ReleasedBeforeAcquire(s)

\* Workspace._set_cached_database(database)
SetCachedDatabase_FlagNotSet(s, d) == [s EXCEPT !.database = d]

SetCachedDatabase(s, d) ==
    [s EXCEPT !.cached_database = TRUE, !.database = d]

\* Workspace._connect: the database is cached at the first call; with no
\* database configured the routing table is updated, and the callback
\* _set_cached_database stores the database of the new routing table: the
\* one the server names, or the requested one (none) if it names none.
Discover(s, o) ==
    IF s.cached_database THEN s
    ELSE IF s.database # "none" THEN SetCachedDatabase(s, s.database)
    ELSE IF o.disc = "error"
    THEN Raise([s EXCEPT !.disc = "error",
                         !.discovery = IF @ = "never" THEN "failed" ELSE @],
               "retryable", "discovery")
    ELSE SetCachedDatabase([s EXCEPT !.disc = o.disc, !.discovery = "done"],
                           IF o.disc = "ok" THEN "neo4j" ELSE "none")

\* _connect makes no discovery when the database is cached or configured:
\* of the outcomes that differ in the discovery only, one is kept.
NoDiscovery(o) == (s_cached_database \/ s_database # "none") => o.disc = "ok"

\* Workspace._connect: pool.acquire returns a connection that was free, or
\* raises.
Acquire(s, o, access_mode, liveness_check_timeout) ==
    LET s1 == [s EXCEPT !.acquired = s.database,
                        !.acquires = Append(@,
                            [access_mode |-> access_mode,
                             liveness_check_timeout |->
                                 liveness_check_timeout])]
    IN IF o.acq = NoConn THEN Raise(s1, o.err, "acquire")
       ELSE IF s.owner[o.acq] # "free" THEN Raise(s, "impossible", "acquire")
       ELSE [s1 EXCEPT !.connection = o.acq, !.owner[o.acq] = "session"]

\* SessionConfig.default_access_mode of a session: the one it was created
\* with, or the default of the class.
DefaultAccessMode_Read(configured) ==
    IF configured = "unset" THEN "READ" ELSE configured

DefaultAccessMode(configured) ==
    IF configured = "unset" THEN "WRITE" ELSE configured

\* Workspace._connect(access_mode, **acquire_kwargs); the liveness check
\* timeout is "none" unless the caller gives one.
Connect(s, o, access_mode, liveness_check_timeout) ==
    LET s1 == Drain(s, o)
        s2 == IF s1.err = "none" THEN Discover(s1, o) ELSE s1
    IN IF s2.err = "none"
       THEN Acquire(s2, o, access_mode, liveness_check_timeout)
       ELSE s2

\* AsyncTransaction._begin(...): BEGIN is sent; if it fails the transaction
\* calls its on_error handler and raises.
TxBegin(s, o, access_mode) ==
    LET s1 == Send([s EXCEPT !.begin_mode = access_mode], {"BEGIN"}) IN
    IF o.io = "ok" THEN s1
    ELSE Raise(TransactionErrorHandler(
                   SetTx(s1, [s1.txo EXCEPT !.failed = TRUE])),
               o.err, "begin")

\* AsyncTransaction._commit(): refused if the transaction is closed or has
\* failed; else COMMIT is sent, the transaction is closed and calls its
\* on_closed handler, whether the commit succeeded or raised.
TxCommit(s, o) ==
    IF s.txo.closed \/ s.txo.failed THEN Raise(s, "fatal", "commit")
    ELSE LET s1 == Send(s, {"COMMIT"}) IN
         IF o.io = "ok"
         THEN TransactionClosedHandler(
                  Ended(SetTx(s1, [s1.txo EXCEPT !.closed = TRUE,
                                                 !.committed = TRUE,
                                                 !.bookmark = o.b]),
                        "commit", o.b))
         ELSE Raise(TransactionClosedHandler(
                        SetTx(s1, [s1.txo EXCEPT !.closed = TRUE])),
                    o.err, "commit")

\* AsyncTransaction._rollback(): refused if the transaction is closed; else
\* ROLLBACK is sent, the transaction is closed and calls its on_closed
\* handler, whether the rollback succeeded or raised.
TxRollback(s, o) ==
    IF s.txo.closed THEN Raise(s, "fatal", "rollback")
    ELSE LET s1 == Send(s, {"ROLLBACK"}) IN
         IF o.io = "ok"
         THEN TransactionClosedHandler(
                  SetTx(s1, [s1.txo EXCEPT !.closed = TRUE]))
         ELSE Raise(TransactionClosedHandler(
                        SetTx(s1, [s1.txo EXCEPT !.closed = TRUE])),
                    o.err, "rollback")

\* AsyncTransaction._close(): a transaction that is not closed is rolled
\* back.
TxClose(s, o) == IF s.txo.closed THEN s ELSE TxRollback(s, o)

\* AsyncSession._open_transaction(tx_cls, access_mode, ...)
OpenTransaction(s, kind, o, access_mode) ==
    LET s1 == Connect(s, o, access_mode, "none") IN
    IF s1.err # "none" THEN s1
    ELSE LET t == [NoTx EXCEPT !.kind = kind, !.conn = s1.connection]
         IN TxBegin([s1 EXCEPT !.transaction = t, !.txo = t], o,
                    access_mode)

\* The state after AsyncSession.__init__ on a pool whose connections are
\* free; a database may be configured.
SessionStart ==
    /\ s_connection = NoConn
    /\ s_transaction = NoTx
    /\ s_auto_result = NoResult
    /\ s_bookmarks = 0
    /\ s_closed = FALSE
    /\ s_cached_database = FALSE
    /\ s_database \in {"none", "neo4j"}
    /\ s_discovery = "never"
    /\ owner = [c \in SConns |-> "free"]
    /\ spc = "idle"
    /\ attempts = 0
    /\ tx = NoTx
    /\ slast = SNoOp

\* The session is created without a default_access_mode, or with one.
SessionInit == SessionStart /\ default_access_mode = "unset"

AccessModeConfigs == {"unset", "READ", "WRITE"}

SessionInitAnyMode ==
    SessionStart /\ default_access_mode \in AccessModeConfigs

\* An explicit transaction is attached to the session and open.
ExplicitOpen == s_transaction.kind = "explicit" /\ ~s_transaction.closed

\* The operation ends with the session fields s.
Finish(s, op, res, uerr) ==
    /\ s.err # "impossible"
    /\ s_connection' = s.connection
    /\ s_transaction' = s.transaction
    /\ s_auto_result' = s.auto_result
    /\ s_bookmarks' = s.bookmarks
    /\ s_closed' = s.closed
    /\ s_cached_database' = s.cached_database
    /\ s_database' = s.database
    /\ s_discovery' = s.discovery
    /\ owner' = s.owner
    /\ slast' = [op |-> op, res |-> res, err |-> s.err, src |-> s.src,
                 sent |-> s.sent, conn |-> s_connection,
                 txopen |-> ExplicitOpen, tx |-> s.txo, uerr |-> uerr,
                 disc |-> s.disc, before |-> s_discovery,
                 acquired |-> s.acquired, ended |-> s.ended,
                 acquires |-> s.acquires, releases |-> s.releases,
                 begin_mode |-> s.begin_mode]

Returned(s) == IF s.err = "none" THEN "returned" ELSE "raised"

\* run and begin_transaction test self._transaction.
TransactionAttached_Never(s) == FALSE

TransactionAttached(s) == s.transaction # NoTx

\* AsyncSession.run(query, ...)
SessionRun(s, o) ==
    IF TransactionAttached(s) THEN Raise(s, "fatal", "run")
    ELSE LET s1 == IF s.auto_result.set THEN Consume(s, o, "PULL") ELSE s
             s2 == IF s1.err = "none" /\ s1.connection = NoConn
                   THEN Connect(s1, o,
                                DefaultAccessMode(default_access_mode),
                                "none")
                   ELSE s1
         IN IF s2.err = "none" THEN ResultRun(s2, o) ELSE s2

Run(o) ==
    /\ spc = "idle"
    /\ NoDiscovery(o)
    /\ LET s == SessionRun(Start, o) IN Finish(s, "run", Returned(s), "none")
    /\ UNCHANGED <<spc, attempts, tx>>

\* AsyncSession.begin_transaction(metadata, timeout)
SessionBeginTransaction(s, o) ==
    LET s1 == IF s.auto_result.set THEN Consume(s, o, "DISCARD") ELSE s IN
    IF s1.err # "none" THEN s1
    ELSE IF TransactionAttached(s1) THEN Raise(s1, "fatal", "begin_transaction")
    ELSE OpenTransaction(s1, "explicit", o,
                         DefaultAccessMode(default_access_mode))

BeginTransaction(o) ==
    /\ spc = "idle"
    /\ NoDiscovery(o)
    /\ LET s == SessionBeginTransaction(Start, o)
       IN Finish(s, "begin_transaction", Returned(s), "none")
    /\ UNCHANGED <<spc, attempts, tx>>

\* AsyncSession._get_server_info(), the connectivity check: the session
\* holds no connection; it connects for reading with a liveness check
\* timeout of 0, reads the server info and disconnects.
ServerInfoOutcomes ==
    {o \in AllOutcomes : OneError(o) /\ StopsAtFailure(o) /\ o.pre = "ok"
                         /\ NoIo(o) /\ o.b = 0 /\ ~o.timeout}

SessionGetServerInfo_KeepsConnection(s, o) == Connect(s, o, "READ", 0)

SessionGetServerInfo(s, o) ==
    LET s1 == Connect(s, o, "READ", 0) IN
    IF s1.err = "none" THEN Disconnect(s1) ELSE s1

GetServerInfo(o) ==
    /\ spc = "idle"
    /\ s_connection = NoConn
    /\ NoDiscovery(o)
    /\ LET s == SessionGetServerInfo(Start, o)
       IN Finish(s, "get_server_info", Returned(s), "none")
    /\ UNCHANGED <<spc, attempts, tx>>

\* AsyncSession.last_bookmarks()
SessionLastBookmarks(s, o) ==
    LET s1 == IF s.auto_result.set THEN Consume(s, o, "DISCARD") ELSE s IN
    IF s1.err # "none" THEN s1
    ELSE IF s1.transaction # NoTx /\ s1.transaction.closed
    THEN [CollectBookmark(s1, s1.transaction.bookmark)
             EXCEPT !.transaction = NoTx]
    ELSE s1

LastBookmarks(o) ==
    /\ spc = "idle"
    /\ LET s == SessionLastBookmarks(Start, o)
       IN Finish(s, "last_bookmarks", Returned(s), "none")
    /\ UNCHANGED <<spc, attempts, tx>>

\* AsyncSession.last_bookmark(), deprecated: it tests
\* 'self._transaction._closed', the method, where last_bookmarks() and
\* close() test what the call '_closed()' returns; a bound method is true,
\* whatever it would return.
MethodIsTrue(method) == TRUE

SessionLastBookmark(s, o) ==
    LET s1 == IF s.auto_result.set THEN Consume(s, o, "DISCARD") ELSE s IN
    IF s1.err # "none" THEN s1
    ELSE IF s1.transaction # NoTx /\ MethodIsTrue(s1.transaction.closed)
    THEN [CollectBookmark(s1, s1.transaction.bookmark)
             EXCEPT !.transaction = NoTx]
    ELSE s1

LastBookmark(o) ==
    /\ spc = "idle"
    /\ LET s == SessionLastBookmark(Start, o)
       IN Finish(s, "last_bookmark", Returned(s), "none")
    /\ UNCHANGED <<spc, attempts, tx>>

\* AsyncSession.close: a transaction that is attached and not closed is
\* rolled back.
RollbackOnClose(s, o) ==
    IF ~s.transaction.closed THEN TxRollback(s, o) ELSE s

\* AsyncSession.close: what is pending on the connection is sent and
\* fetched, errors of the server and of the connection are passed over, and
\* the connection is released.
CloseDrain(s, o) ==
    IF s.connection = NoConn THEN s
    ELSE IF s.auto_result.set /\ s.auto_result.conn = s.connection
    THEN CASE o.pre = "ok" ->
                  Disconnect(ResultClosed(Ended(s, "result", o.b), o.b))
           [] o.pre = "more" -> Disconnect(s)
           [] OTHER -> Disconnect(ResultError(s))
    ELSE Disconnect(s)

\* AsyncSession.close(), called directly or by __aexit__ (failed: with an
\* exception).
SessionClose(s, failed, o) ==
    IF s.closed THEN s
    ELSE IF s.connection = NoConn THEN [s EXCEPT !.closed = TRUE]
    ELSE LET s1 == IF s.auto_result.set /\ ~failed
                   THEN [Consume(s, o, "DISCARD") EXCEPT !.err = "none",
                                                         !.src = "none"]
                   ELSE s
             s2 == IF s1.transaction # NoTx THEN RollbackOnClose(s1, o)
                   ELSE s1
         IN IF s2.err # "none" THEN s2
            ELSE [CloseDrain([s2 EXCEPT !.transaction = NoTx], o)
                     EXCEPT !.closed = TRUE]

Close(failed, o) ==
    /\ spc = "idle"
    /\ LET s == SessionClose(Start, failed, o)
       IN Finish(s, "close", Returned(s), "none")
    /\ UNCHANGED <<spc, attempts, tx>>

\* _run_transaction, an attempt has failed with the error s.err: a
\* DriverError or Neo4jError disconnects the session, and is raised if it
\* is not retryable; if it is, the next attempt follows after a delay unless
\* the retry time is over (which it is not at the first failure), and then
\* the error is raised.  Any other error is raised as it is.
IsRetryable_Always(err) == TRUE

IsRetryable_Never(err) == FALSE

IsRetryable(err) == err = "retryable"

AttemptFailed(s, o, op, uerr) ==
    IF s.err \notin IOErrors
    THEN /\ Finish(s, op, "raised", uerr)
         /\ spc' = "idle" /\ attempts' = 0 /\ tx' = NoTx
    ELSE IF IsRetryable(s.err) /\ attempts + 1 < MaxAttempts
                               /\ (attempts = 0 \/ ~o.timeout)
    THEN /\ Finish(Disconnect(s), op, "retry", uerr)
         /\ spc' = "retry" /\ attempts' = attempts + 1 /\ tx' = NoTx
    ELSE /\ Finish(Disconnect(s), op, "raised", uerr)
         /\ spc' = "idle" /\ attempts' = 0 /\ tx' = NoTx

\* The managed transactions followed are those of write_transaction.
ManagedAccessMode == "WRITE"

\* _run_transaction (read_transaction, write_transaction), the start of
\* an attempt: the first one, or the next one after the delay.  The
\* transaction is opened and the user function is called.
RunTransactionAttempt(o) ==
    /\ spc \in {"idle", "retry"}
    /\ NoDiscovery(o)
    /\ LET s == OpenTransaction(Start, "managed", o, ManagedAccessMode) IN
        IF s.err = "none"
        THEN /\ Finish(s, "attempt", "opened", "none")
             /\ spc' = "fn" /\ tx' = s.txo /\ UNCHANGED attempts
        ELSE AttemptFailed(s, o, "attempt", "none")

\* The user function runs a query in the transaction and the query fails:
\* the transaction notes the error and calls its on_error handler.
FnRunFails ==
    /\ spc = "fn"
    /\ s_transaction # NoTx
    /\ ~tx.failed
    /\ LET s0 == [Start EXCEPT !.txo = tx]
           s == TransactionErrorHandler(
                    SetTx(Send(s0, {"RUN", "PULL"}),
                          [tx EXCEPT !.failed = TRUE]))
       IN /\ Finish(s, "tx_run", "raised", "none")
          /\ tx' = s.txo
    /\ UNCHANGED <<spc, attempts>>

\* _run_transaction, the end of the user function: if it returned the
\* transaction is committed; if it raised an Exception the transaction is
\* closed and the error raised again; an exception that is no Exception is
\* raised as it is.
EndOfFunction_AlwaysCommits(s, outcome, o) ==
    LET s1 == TxCommit(s, o) IN
    IF outcome = "returned" \/ s1.err # "none" THEN s1
    ELSE Raise(s1, outcome, "user")

EndOfFunction(s, outcome, o) ==
    IF outcome = "returned" THEN TxCommit(s, o)
    ELSE IF outcome = "base" THEN Raise(s, "base", "user")
    ELSE LET s1 == TxClose(s, o) IN
         IF s1.err # "none" THEN s1 ELSE Raise(s1, outcome, "user")

FnEnds(outcome, o) ==
    /\ spc = "fn"
    /\ LET s == EndOfFunction([Start EXCEPT !.txo = tx], outcome, o)
           uerr == IF outcome = "returned" THEN "none" ELSE outcome
       IN IF s.err = "none"
          THEN /\ Finish(s, "function", "returned", uerr)
               /\ spc' = "idle" /\ attempts' = 0 /\ tx' = NoTx
          ELSE AttemptFailed(s, o, "function", uerr)

\* The user commits or rolls back the explicit transaction of the session.
UserCommit(o) ==
    /\ spc = "idle"
    /\ s_transaction.kind = "explicit"
    /\ LET s == TxCommit(Start, o) IN Finish(s, "commit", Returned(s), "none")
    /\ UNCHANGED <<spc, attempts, tx>>

UserRollback(o) ==
    /\ spc = "idle"
    /\ s_transaction.kind = "explicit"
    /\ LET s == TxRollback(Start, o)
       IN Finish(s, "rollback", Returned(s), "none")
    /\ UNCHANGED <<spc, attempts, tx>>

\* The user runs a query in the explicit transaction and the query fails.
UserRunFails ==
    /\ spc = "idle"
    /\ s_transaction.kind = "explicit"
    /\ LET s == TransactionErrorHandler(
                    SetTx(Send(Start, {"RUN", "PULL"}),
                          [s_transaction EXCEPT !.failed = TRUE]))
       IN Finish(s, "tx_run", "raised", "none")
    /\ UNCHANGED <<spc, attempts, tx>>

\* The user consumes the auto-commit result of the session.
UserConsumes(o) ==
    /\ spc = "idle"
    /\ s_auto_result.set
    /\ LET s == Consume(Start, o, "DISCARD")
       IN Finish(s, "consume", Returned(s), "none")
    /\ UNCHANGED <<spc, attempts, tx>>

\* Another session acquires a free connection of the pool, or releases it.
OtherAcquire(c) ==
    /\ owner[c] = "free"
    /\ owner' = [owner EXCEPT ![c] = "other"]
    /\ slast' = SNoOp
    /\ UNCHANGED <<s_connection, s_transaction, s_auto_result, s_bookmarks,
                   s_closed, s_cached_database, s_database, s_discovery, spc,
                   attempts, tx>>

OtherRelease(c) ==
    /\ owner[c] = "other"
    /\ owner' = [owner EXCEPT ![c] = "free"]
    /\ slast' = SNoOp
    /\ UNCHANGED <<s_connection, s_transaction, s_auto_result, s_bookmarks,
                   s_closed, s_cached_database, s_database, s_discovery, spc,
                   attempts, tx>>

(***************************************************************************)
(* The retry loop of _run_transaction with its clock.  Time is counted in  *)
(* units of 0.2 s.  An attempt is one or two steps: _open_transaction, and *)
(* the user function with the commit or the close that follows it; each    *)
(* takes some time.  The two readings of the clock after a failed attempt  *)
(* (t0 and t1) are two calls of perf_counter: the second is taken at the   *)
(* first's time or later.                                                  *)
(***************************************************************************)
JitterDen == 5          \* retry_delay_jitter_factor = 0.2 = 1 / JitterDen
InitialDelay == 5       \* initial_retry_delay = 1.0 s
Multiplier == 2         \* retry_delay_multiplier = 2.0
MaxRetryTime == 12      \* largest max_transaction_retry_time
AttemptTime == 1        \* longest time a step of an attempt takes
MaxReadingGap == 1      \* longest time between two readings of the clock
MaxFailures == 5        \* failed attempts the model follows

RetryConfigs ==
    [initial_retry_delay : {InitialDelay, 2 * InitialDelay},
     retry_delay_multiplier : {1, Multiplier},
     max_transaction_retry_time : {MaxRetryTime \div 2, MaxRetryTime}]
\* Configurations whose max_transaction_retry_time is as small as it can
\* be.
SmallRetryConfigs ==
    [initial_retry_delay : {InitialDelay},
     retry_delay_multiplier : {1, Multiplier},
     max_transaction_retry_time : {0, 1, MaxRetryTime \div 2}]
NoRetryConfig ==
    [initial_retry_delay |-> 0, retry_delay_multiplier |-> 0,
     max_transaction_retry_time |-> 0]

\* The ends of the user function: what it does (returns, or raises an
\* error), and how the commit or the close of the transaction that
\* follows ends.
FnOutcomes ==
    {e \in [fn : {"returned"} \cup UserErrors, end : {"ok"} \cup IOErrors] :
        e.fn = "base" => e.end = "ok"}

\* The error an attempt raises whose user function ended as e, or "none".
AttemptError(e) ==
    IF e.fn = "base" THEN "base"
    ELSE IF e.end # "ok" THEN e.end
    ELSE IF e.fn = "returned" THEN "none" ELSE e.fn

\* retry_delay_generator: the delays it may yield at the delay d, and the
\* delay after it.
Jittered(d) ==
    LET jitter == d \div JitterDen
    IN IF jitter = 0 THEN {d} ELSE (d - jitter)..(d + jitter - 1)
NextDelay(d, multiplier) == d * multiplier

\* _run_transaction: the timer is started after the first failed attempt;
\* the loop is left when the time since then is over.
TimerStart_AtCall(t0, now) == IF t0 = -1 THEN 0 ELSE t0

TimerStart(t0, now) == IF t0 = -1 THEN now ELSE t0

\* The times that may pass between the reading of the clock that starts
\* the timer and the reading that is compared with it, in a step that
\* takes the time d.
ReadingGaps(d) == 0..(IF d < MaxReadingGap THEN d ELSE MaxReadingGap)

TimeIsOver_Never(t0, t1, max) == FALSE

TimeIsOver(t0, t1, max) == t1 - t0 > max

RetryInit ==
    /\ rt_pc = "idle"
    /\ rt_cfg = NoRetryConfig
    /\ rt_now = 0
    /\ rt_t0 = -1
    /\ rt_delay = 0
    /\ rt_sleep = 0
    /\ rt_errors = 0
    /\ rt_calls = 0
    /\ rt_sleeps = 0
    /\ rt_fnfails = 0
    /\ rt_result = 0
    /\ rt_clean = TRUE

\* _run_transaction is called: the delay generator is made, errors = [],
\* t0 = -1.
RtCall(cfg) ==
    /\ rt_pc = "idle"
    /\ rt_pc' = "open"
    /\ rt_cfg' = cfg
    /\ rt_delay' = cfg.initial_retry_delay
    /\ rt_t0' = -1
    /\ rt_errors' = 0
    /\ UNCHANGED <<rt_now, rt_sleep, rt_calls, rt_sleeps, rt_fnfails,
                   rt_result, rt_clean>>

\* _run_transaction, an attempt has raised err; the clock is read first at
\* the time first (t0, if the timer was not started) and then at the time
\* now (t1).  An error
\* that is no DriverError or Neo4jError, or is not retryable, is raised.
\* Else it is appended to errors, the timer is started if it was not, and
\* the loop is left and the last error raised if the time is over; if not,
\* the next delay is drawn.
RtFailed(err, first, now) ==
    IF err \notin IOErrors \/ ~IsRetryable(err)
    THEN /\ rt_pc' = "raised"
         /\ UNCHANGED <<rt_t0, rt_delay, rt_sleep, rt_errors>>
    ELSE /\ rt_errors' = rt_errors + 1
         /\ rt_t0' = TimerStart(rt_t0, first)
         /\ IF TimeIsOver(rt_t0', now, rt_cfg.max_transaction_retry_time)
            THEN /\ rt_pc' = "raised"
                 /\ UNCHANGED <<rt_delay, rt_sleep>>
            ELSE /\ rt_pc' = "sleep"
                 /\ rt_sleep' \in Jittered(rt_delay)
                 /\ rt_delay' = NextDelay(rt_delay,
                                          rt_cfg.retry_delay_multiplier)

\* An attempt starts: _open_transaction returns after the time d, and the
\* user function is called, or it raises err.
RtOpen(d, err) ==
    /\ rt_pc = "open"
    /\ rt_errors < MaxFailures
    /\ rt_now' = rt_now + d
    /\ IF err = "none"
       THEN /\ rt_pc' = "fn"
            /\ rt_calls' = rt_calls + 1
            /\ UNCHANGED <<rt_t0, rt_delay, rt_sleep, rt_errors>>
       ELSE /\ \E g \in ReadingGaps(d) : RtFailed(err, rt_now' - g, rt_now')
            /\ UNCHANGED rt_calls
    /\ rt_clean' = (rt_clean /\ err = "none")
    /\ UNCHANGED <<rt_cfg, rt_sleeps, rt_fnfails, rt_result>>

\* The user function ends as e after the time d; the transaction is
\* committed or closed.  The value of the function is returned if the
\* attempt raised nothing.
RtFnEnds(d, e) ==
    /\ rt_pc = "fn"
    /\ rt_now' = rt_now + d
    /\ rt_fnfails' = IF e.fn = "retryable" THEN rt_fnfails + 1
                     ELSE rt_fnfails
    /\ rt_result' = IF e.fn = "returned" THEN rt_calls ELSE rt_result
    /\ IF AttemptError(e) = "none"
       THEN /\ rt_pc' = "returned"
            /\ UNCHANGED <<rt_t0, rt_delay, rt_sleep, rt_errors>>
       ELSE \E g \in ReadingGaps(d) :
                RtFailed(AttemptError(e), rt_now' - g, rt_now')
    /\ rt_clean' = (rt_clean /\ e.fn \in {"returned", "retryable"}
                             /\ e.end = "ok")
    /\ UNCHANGED <<rt_cfg, rt_calls, rt_sleeps>>

\* async_sleep(delay): the clock advances by the delay, and the next
\* attempt follows.
RtSleep ==
    /\ rt_pc = "sleep"
    /\ rt_pc' = "open"
    /\ rt_now' = rt_now + rt_sleep
    /\ rt_sleeps' = rt_sleeps + 1
    /\ UNCHANGED <<rt_cfg, rt_t0, rt_delay, rt_sleep, rt_errors, rt_calls,
                   rt_fnfails, rt_result, rt_clean>>

(***************************************************************************)
(* The specifications.                                                     *)
(***************************************************************************)
PoolInit == Init /\ RouteInit /\ SessionInit /\ RetryInit

Next ==
    \/ \E t \in Tasks, a \in Addrs : AcquireStart(t, a) /\ UNCHANGED <<routeVars, sessVars, retryVars, confVars>>
    \/ \E t \in Tasks : DeadlineExpires(t) /\ UNCHANGED <<routeVars, sessVars, retryVars, confVars>>
    \/ \E t \in Tasks : AcquireFromPool(t) /\ UNCHANGED <<routeVars, sessVars, retryVars, confVars>>
    \/ \E t \in Tasks, l \in BOOLEAN :
        HealthCheckPasses(t, l) /\ UNCHANGED <<routeVars, sessVars, retryVars, confVars>>
    \/ \E t \in Tasks, l \in BOOLEAN :
        HealthCheckFails(t, l) /\ UNCHANGED <<routeVars, sessVars, retryVars, confVars>>
    \/ \E t \in Tasks : HealthCheckRaises(t) /\ UNCHANGED <<routeVars, sessVars, retryVars, confVars>>
    \/ \E t \in Tasks : AcquireNewLater(t) /\ UNCHANGED <<routeVars, sessVars, retryVars, confVars>>
    \/ \E t \in Tasks : WaitTimesOut(t) /\ UNCHANGED <<routeVars, sessVars, retryVars, confVars>>
    \/ \E t \in Tasks : OpenSucceeds(t) /\ UNCHANGED <<routeVars, sessVars, retryVars, confVars>>
    \/ \E t \in Tasks, u \in BOOLEAN : OpenFails(t, u) /\ UNCHANGED <<routeVars, sessVars, retryVars, confVars>>
    \/ \E t \in Tasks, b \in BOOLEAN : Use(t, b) /\ UNCHANGED <<routeVars, sessVars, retryVars, confVars>>
    \/ \E t \in Tasks, r \in ResetOutcomes :
        Release(t, r) /\ UNCHANGED <<routeVars, sessVars, retryVars, confVars>>
    \/ \E r \in ResetOutcomes :
        ReleaseAgain(r) /\ UNCHANGED <<routeVars, sessVars, retryVars, confVars>>
    \/ MarkAllStale /\ UNCHANGED <<routeVars, sessVars, retryVars, confVars>>
    \/ \E a \in Addrs : Deactivate(a) /\ UNCHANGED <<routeVars, sessVars, retryVars, confVars>>

Spec == PoolInit /\ [][Next]_vars

\* The same pool, of any size from 0.
PoolSizesInit == InitAnySize /\ RouteInit /\ SessionInit /\ RetryInit

SpecPoolSizes == PoolSizesInit /\ [][Next]_vars

\* The same pool with room for one more connection per address, so that an
\* opener works while the address has connections.
LargerPoolSize == MaxPoolSize + 1

InitLargerPool == PoolStart /\ max_pool_size = LargerPoolSize

LargerPoolInit == InitLargerPool /\ RouteInit /\ SessionInit /\ RetryInit

\* Two of the tasks use it.
TwoTasks == {1, 2}

NextLargerPool ==
    \/ \E t \in TwoTasks, a \in Addrs : AcquireStart(t, a) /\ UNCHANGED <<routeVars, sessVars, retryVars, confVars>>
    \/ \E t \in TwoTasks : DeadlineExpires(t) /\ UNCHANGED <<routeVars, sessVars, retryVars, confVars>>
    \/ \E t \in TwoTasks : AcquireFromPool(t) /\ UNCHANGED <<routeVars, sessVars, retryVars, confVars>>
    \/ \E t \in TwoTasks, l \in BOOLEAN :
        HealthCheckPasses(t, l) /\ UNCHANGED <<routeVars, sessVars, retryVars, confVars>>
    \/ \E t \in TwoTasks, l \in BOOLEAN :
        HealthCheckFails(t, l) /\ UNCHANGED <<routeVars, sessVars, retryVars, confVars>>
    \/ \E t \in TwoTasks : HealthCheckRaises(t) /\ UNCHANGED <<routeVars, sessVars, retryVars, confVars>>
    \/ \E t \in TwoTasks : AcquireNewLater(t) /\ UNCHANGED <<routeVars, sessVars, retryVars, confVars>>
    \/ \E t \in TwoTasks : WaitTimesOut(t) /\ UNCHANGED <<routeVars, sessVars, retryVars, confVars>>
    \/ \E t \in TwoTasks : OpenSucceeds(t) /\ UNCHANGED <<routeVars, sessVars, retryVars, confVars>>
    \/ \E t \in TwoTasks, u \in BOOLEAN : OpenFails(t, u) /\ UNCHANGED <<routeVars, sessVars, retryVars, confVars>>
    \/ \E t \in TwoTasks, b \in BOOLEAN : Use(t, b) /\ UNCHANGED <<routeVars, sessVars, retryVars, confVars>>
    \/ \E t \in TwoTasks, r \in ResetOutcomes :
        Release(t, r) /\ UNCHANGED <<routeVars, sessVars, retryVars, confVars>>
    \/ \E r \in ResetOutcomes :
        ReleaseAgain(r) /\ UNCHANGED <<routeVars, sessVars, retryVars, confVars>>
    \/ MarkAllStale /\ UNCHANGED <<routeVars, sessVars, retryVars, confVars>>
    \/ \E a \in Addrs : Deactivate(a) /\ UNCHANGED <<routeVars, sessVars, retryVars, confVars>>

SpecLargerPool == LargerPoolInit /\ [][NextLargerPool]_vars

\* The pool used by one call after the other: an acquire or a release
\* starts when no acquire is under way; connections break and go stale at
\* any time.
NextSequential ==
    \/ \E t \in Tasks, a \in Addrs :
        /\ \A u \in Tasks : pc[u] = "idle"
        /\ AcquireStart(t, a)
        /\ UNCHANGED <<routeVars, sessVars, retryVars, confVars>>
    \/ \E t \in Tasks : DeadlineExpires(t) /\ UNCHANGED <<routeVars, sessVars, retryVars, confVars>>
    \/ \E t \in Tasks : AcquireFromPool(t) /\ UNCHANGED <<routeVars, sessVars, retryVars, confVars>>
    \/ \E t \in Tasks, l \in BOOLEAN :
        HealthCheckPasses(t, l) /\ UNCHANGED <<routeVars, sessVars, retryVars, confVars>>
    \/ \E t \in Tasks, l \in BOOLEAN :
        HealthCheckFails(t, l) /\ UNCHANGED <<routeVars, sessVars, retryVars, confVars>>
    \/ \E t \in Tasks : HealthCheckRaises(t) /\ UNCHANGED <<routeVars, sessVars, retryVars, confVars>>
    \/ \E t \in Tasks : AcquireNewLater(t) /\ UNCHANGED <<routeVars, sessVars, retryVars, confVars>>
    \/ \E t \in Tasks : WaitTimesOut(t) /\ UNCHANGED <<routeVars, sessVars, retryVars, confVars>>
    \/ \E t \in Tasks : OpenSucceeds(t) /\ UNCHANGED <<routeVars, sessVars, retryVars, confVars>>
    \/ \E t \in Tasks, u \in BOOLEAN : OpenFails(t, u) /\ UNCHANGED <<routeVars, sessVars, retryVars, confVars>>
    \/ \E t \in Tasks, b \in BOOLEAN : Use(t, b) /\ UNCHANGED <<routeVars, sessVars, retryVars, confVars>>
    \/ \E t \in Tasks, r \in ResetOutcomes :
        /\ \A u \in Tasks : pc[u] = "idle"
        /\ Release(t, r)
        /\ UNCHANGED <<routeVars, sessVars, retryVars, confVars>>
    \/ \E r \in ResetOutcomes :
        ReleaseAgain(r) /\ UNCHANGED <<routeVars, sessVars, retryVars, confVars>>
    \/ MarkAllStale /\ UNCHANGED <<routeVars, sessVars, retryVars, confVars>>
    \/ \E a \in Addrs : Deactivate(a) /\ UNCHANGED <<routeVars, sessVars, retryVars, confVars>>

SpecPoolSequential == PoolSizesInit /\ [][NextSequential]_vars

\* Several tasks use the routing pool for the default database, and the
\* routers name no database in their replies.
NextRouting ==
    \/ \E t \in RTasks, m \in Modes :
        REnsure(t, m, DefaultDb) /\ UNCHANGED <<poolVars, sessVars, retryVars, confVars, ridle>>
    \/ \E t \in RTasks, m \in Modes :
        RLockTimesOut(t, m, DefaultDb) /\ UNCHANGED <<poolVars, sessVars, retryVars, confVars, ridle>>
    \/ \E t \in RTasks, r \in RAddrs, rep \in Replies :
        rep.db = "none" /\ RFetchSucceeds(t, r, rep) /\ UNCHANGED <<poolVars, sessVars, retryVars, confVars, ridle>>
    \/ \E t \in RTasks, r \in RAddrs : RFetchFails(t, r) /\ UNCHANGED <<poolVars, sessVars, retryVars, confVars, ridle>>
    \/ \E t \in RTasks, r \in RAddrs, rep \in Replies :
        rep.db = "none" /\ RFetchRejects(t, r, rep) /\ UNCHANGED <<poolVars, sessVars, retryVars, confVars, ridle>>
    \/ \E t \in RTasks : RDeadlineExpired(t) /\ UNCHANGED <<poolVars, sessVars, retryVars, confVars, ridle>>
    \/ \E t \in RTasks, why \in {"ServiceUnavailable", "Neo4jError"} :
        RUpdateFails(t, why) /\ UNCHANGED <<poolVars, sessVars, retryVars, confVars, ridle>>
    \/ \E t \in RTasks : REnsureReturnsTrue(t) /\ UNCHANGED <<poolVars, sessVars, retryVars, confVars, ridle>>
    \/ \E t \in RTasks : RSelect(t) /\ UNCHANGED <<poolVars, sessVars, retryVars, confVars, ridle>>
    \/ \E t \in RTasks : RConnectSucceeds(t) /\ UNCHANGED <<poolVars, sessVars, retryVars, confVars, ridle>>
    \/ \E t \in RTasks : RConnectUnavailable(t) /\ UNCHANGED <<poolVars, sessVars, retryVars, confVars, ridle>>
    \/ \E t \in RTasks : RConnectRaises(t) /\ UNCHANGED <<poolVars, sessVars, retryVars, confVars, ridle>>
    \/ \E a \in RAddrs : RRelease(a) /\ UNCHANGED <<poolVars, sessVars, retryVars, confVars, ridle>>
    \/ \E a \in RAddrs : RDeactivate(a) /\ UNCHANGED <<poolVars, sessVars, retryVars, confVars, ridle>>
    \/ \E a \in RAddrs : ROnWriteFailure(a) /\ UNCHANGED <<poolVars, sessVars, retryVars, confVars, ridle>>
    \/ RTimePasses(DefaultDb) /\ UNCHANGED <<poolVars, sessVars, retryVars, confVars, ridle>>

SpecRouting == PoolInit /\ [][NextRouting]_vars

\* One task uses the routing pool for several databases, and the routers
\* may name a database in their replies.
NextRoutingDbs ==
    \/ \E m \in Modes, d \in Dbs : REnsure(1, m, d) /\ UNCHANGED <<poolVars, sessVars, retryVars, confVars, ridle>>
    \/ \E r \in RAddrs, rep \in Replies :
        RFetchSucceeds(1, r, rep) /\ UNCHANGED <<poolVars, sessVars, retryVars, confVars, ridle>>
    \/ \E r \in RAddrs : RFetchFails(1, r) /\ UNCHANGED <<poolVars, sessVars, retryVars, confVars, ridle>>
    \/ \E r \in RAddrs, rep \in Replies :
        RFetchRejects(1, r, rep) /\ UNCHANGED <<poolVars, sessVars, retryVars, confVars, ridle>>
    \/ RDeadlineExpired(1) /\ UNCHANGED <<poolVars, sessVars, retryVars, confVars, ridle>>
    \/ \E why \in {"ServiceUnavailable", "Neo4jError"} :
        RUpdateFails(1, why) /\ UNCHANGED <<poolVars, sessVars, retryVars, confVars, ridle>>
    \/ REnsureReturnsTrue(1) /\ UNCHANGED <<poolVars, sessVars, retryVars, confVars, ridle>>
    \/ RSelect(1) /\ UNCHANGED <<poolVars, sessVars, retryVars, confVars, ridle>>
    \/ RConnectSucceeds(1) /\ UNCHANGED <<poolVars, sessVars, retryVars, confVars, ridle>>
    \/ RConnectUnavailable(1) /\ UNCHANGED <<poolVars, sessVars, retryVars, confVars, ridle>>
    \/ RConnectRaises(1) /\ UNCHANGED <<poolVars, sessVars, retryVars, confVars, ridle>>
    \/ \E a \in RAddrs : RRelease(a) /\ UNCHANGED <<poolVars, sessVars, retryVars, confVars, ridle>>
    \/ \E a \in RAddrs : RDeactivate(a) /\ UNCHANGED <<poolVars, sessVars, retryVars, confVars, ridle>>
    \/ \E a \in RAddrs : ROnWriteFailure(a) /\ UNCHANGED <<poolVars, sessVars, retryVars, confVars, ridle>>
    \/ \E d \in Dbs : RTimePasses(d) /\ UNCHANGED <<poolVars, sessVars, retryVars, confVars, ridle>>

SpecRoutingDbs == PoolInit /\ [][NextRoutingDbs]_vars

\* One task uses the routing pool for the default database, and the task
\* that is in the loop of acquire goes on: each _select_address and each
\* _acquire(address) of the loop returns or raises at last, the latter by
\* its deadline.
NextRoutingLoop ==
    \/ \E m \in Modes : REnsure(1, m, DefaultDb) /\ UNCHANGED <<poolVars, sessVars, retryVars, confVars, ridle>>
    \/ \E r \in RAddrs, rep \in Replies :
        rep.db = "none" /\ RFetchSucceeds(1, r, rep) /\ UNCHANGED <<poolVars, sessVars, retryVars, confVars, ridle>>
    \/ \E r \in RAddrs : RFetchFails(1, r) /\ UNCHANGED <<poolVars, sessVars, retryVars, confVars, ridle>>
    \/ \E r \in RAddrs, rep \in Replies :
        rep.db = "none" /\ RFetchRejects(1, r, rep) /\ UNCHANGED <<poolVars, sessVars, retryVars, confVars, ridle>>
    \/ RDeadlineExpired(1) /\ UNCHANGED <<poolVars, sessVars, retryVars, confVars, ridle>>
    \/ \E why \in {"ServiceUnavailable", "Neo4jError"} :
        RUpdateFails(1, why) /\ UNCHANGED <<poolVars, sessVars, retryVars, confVars, ridle>>
    \/ REnsureReturnsTrue(1) /\ UNCHANGED <<poolVars, sessVars, retryVars, confVars, ridle>>
    \/ RSelect(1) /\ UNCHANGED <<poolVars, sessVars, retryVars, confVars, ridle>>
    \/ RConnectSucceeds(1) /\ UNCHANGED <<poolVars, sessVars, retryVars, confVars, ridle>>
    \/ RConnectUnavailable(1) /\ UNCHANGED <<poolVars, sessVars, retryVars, confVars, ridle>>
    \/ RConnectRaises(1) /\ UNCHANGED <<poolVars, sessVars, retryVars, confVars, ridle>>
    \/ \E a \in RAddrs : RRelease(a) /\ UNCHANGED <<poolVars, sessVars, retryVars, confVars, ridle>>
    \/ \E a \in RAddrs : RDeactivate(a) /\ UNCHANGED <<poolVars, sessVars, retryVars, confVars, ridle>>
    \/ \E a \in RAddrs : ROnWriteFailure(a) /\ UNCHANGED <<poolVars, sessVars, retryVars, confVars, ridle>>
    \/ RTimePasses(DefaultDb) /\ UNCHANGED <<poolVars, sessVars, retryVars, confVars, ridle>>

RLoopTurn ==
    /\ \/ RSelect(1)
       \/ RConnectSucceeds(1)
       \/ RConnectUnavailable(1)
       \/ RConnectRaises(1)
    /\ UNCHANGED <<poolVars, sessVars, retryVars, confVars, ridle>>

SpecRoutingLoop ==
    PoolInit /\ [][NextRoutingLoop]_vars /\ WF_vars(RLoopTurn)

\* One task uses the routing pool for several databases with READ access,
\* and the addresses the pool holds an idle connection to are followed: release leaves the
\* connection idle in the pool, fetch_routing_info releases the connection
\* to the router in its finally block, deactivate closes the idle
\* connections to the address, and update_connection_pool those to every
\* address that is no server of the table of the requested database.
\* The routers may also name a table that has one server only.
IdleReplies ==
    {rep \in Replies :
        /\ rep.ttl = 1
        /\ rep.db \in Dbs
        /\ rep.writers # {}
        /\ rep.readers # {}} \cup
    { [routers |-> {R0}, readers |-> {R0}, writers |-> {R0},
       ttl |-> 1, db |-> d] : d \in Dbs }

IdleAfterRelease(idle, a) == idle \cup {a}

IdleAfterDeactivate(idle, a) == idle \ {a}

IdleAfterUpdateConnectionPool(idle, tabs, d) ==
    idle \cap ServersOf(WithTable(tabs, d)[d])

NextRoutingIdle ==
    \/ \E d \in Dbs :
        REnsure(1, "READ", d) /\ UNCHANGED <<poolVars, sessVars, retryVars, confVars, ridle>>
    \/ \E r \in RAddrs, rep \in IdleReplies :
        /\ RFetchSucceeds(1, r, rep)
        /\ ridle' = IdleAfterRelease(ridle, r)
        /\ UNCHANGED <<poolVars, sessVars, retryVars, confVars>>
    \/ \E r \in RAddrs :
        /\ RFetchFails(1, r)
        /\ ridle' = IdleAfterDeactivate(ridle, r)
        /\ UNCHANGED <<poolVars, sessVars, retryVars, confVars>>
    \/ \E r \in RAddrs, rep \in IdleReplies :
        /\ RFetchRejects(1, r, rep)
        /\ ridle' = IdleAfterDeactivate(IdleAfterRelease(ridle, r), r)
        /\ UNCHANGED <<poolVars, sessVars, retryVars, confVars>>
    \/ RDeadlineExpired(1) /\ UNCHANGED <<poolVars, sessVars, retryVars, confVars, ridle>>
    \/ /\ RUpdateFails(1, "ServiceUnavailable")
       /\ UNCHANGED <<poolVars, sessVars, retryVars, confVars, ridle>>
    \/ \E r \in NextRouters(rplan[1]) :
        /\ RUpdateFails(1, "Neo4jError")
        /\ ridle' = IdleAfterRelease(ridle, r)
        /\ UNCHANGED <<poolVars, sessVars, retryVars, confVars>>
    \/ /\ REnsureReturnsTrue(1)
       /\ ridle' = IdleAfterUpdateConnectionPool(ridle, routing_tables, rdb[1])
       /\ UNCHANGED <<poolVars, sessVars, retryVars, confVars>>
    \/ RSelect(1) /\ UNCHANGED <<poolVars, sessVars, retryVars, confVars, ridle>>
    \/ /\ RConnectSucceeds(1)
       /\ ridle' \in {ridle, ridle \ {rcur[1]}}
       /\ UNCHANGED <<poolVars, sessVars, retryVars, confVars>>
    \/ /\ RConnectUnavailable(1)
       /\ ridle' = IdleAfterDeactivate(ridle, rcur[1])
       /\ UNCHANGED <<poolVars, sessVars, retryVars, confVars>>
    \/ RConnectRaises(1) /\ UNCHANGED <<poolVars, sessVars, retryVars, confVars, ridle>>
    \/ \E a \in RAddrs :
        /\ RRelease(a)
        /\ ridle' = IdleAfterRelease(ridle, a)
        /\ UNCHANGED <<poolVars, sessVars, retryVars, confVars>>
    \/ \E a \in RAddrs :
        /\ RDeactivate(a)
        /\ ridle' = IdleAfterDeactivate(ridle, a)
        /\ UNCHANGED <<poolVars, sessVars, retryVars, confVars>>
    \/ \E d \in Dbs : RTimePasses(d) /\ UNCHANGED <<poolVars, sessVars, retryVars, confVars, ridle>>

SpecRoutingIdle == PoolInit /\ [][NextRoutingIdle]_vars

\* One session, and other users of the connections of its pool.
NextSession ==
    \/ \E o \in ConnectOutcomes : Run(o) /\ UNCHANGED <<poolVars, routeVars, retryVars, confVars>>
    \/ \E o \in ConnectOutcomes :
        BeginTransaction(o) /\ UNCHANGED <<poolVars, routeVars, retryVars, confVars>>
    \/ \E o \in ServerInfoOutcomes :
        GetServerInfo(o) /\ UNCHANGED <<poolVars, routeVars, retryVars, confVars>>
    \/ \E o \in ResultOutcomes :
        LastBookmarks(o) /\ UNCHANGED <<poolVars, routeVars, retryVars, confVars>>
    \/ \E failed \in BOOLEAN, o \in CloseOutcomes :
        Close(failed, o) /\ UNCHANGED <<poolVars, routeVars, retryVars, confVars>>
    \/ \E o \in AttemptOutcomes :
        RunTransactionAttempt(o) /\ UNCHANGED <<poolVars, routeVars, retryVars, confVars>>
    \/ FnRunFails /\ UNCHANGED <<poolVars, routeVars, retryVars, confVars>>
    \/ \E outcome \in {"returned"} \cup UserErrors, o \in TxOutcomes :
        FnEnds(outcome, o) /\ UNCHANGED <<poolVars, routeVars, retryVars, confVars>>
    \/ \E o \in TxOutcomes : ~o.timeout /\ UserCommit(o)
                             /\ UNCHANGED <<poolVars, routeVars, retryVars, confVars>>
    \/ \E o \in TxOutcomes : ~o.timeout /\ UserRollback(o)
                             /\ UNCHANGED <<poolVars, routeVars, retryVars, confVars>>
    \/ UserRunFails /\ UNCHANGED <<poolVars, routeVars, retryVars, confVars>>
    \/ \E o \in ResultOutcomes :
        UserConsumes(o) /\ UNCHANGED <<poolVars, routeVars, retryVars, confVars>>
    \/ \E c \in SConns : OtherAcquire(c) /\ UNCHANGED <<poolVars, routeVars, retryVars, confVars>>
    \/ \E c \in SConns : OtherRelease(c) /\ UNCHANGED <<poolVars, routeVars, retryVars, confVars>>

SpecSession == PoolInit /\ [][NextSession]_vars

\* The session used for auto-commit queries and explicit transactions,
\* and asked for its bookmarks, also through the deprecated
\* last_bookmark().
NextSessionBookmarks ==
    \/ \E o \in ConnectOutcomes : Run(o) /\ UNCHANGED <<poolVars, routeVars, retryVars, confVars>>
    \/ \E o \in ConnectOutcomes :
        BeginTransaction(o) /\ UNCHANGED <<poolVars, routeVars, retryVars, confVars>>
    \/ \E o \in ResultOutcomes :
        LastBookmarks(o) /\ UNCHANGED <<poolVars, routeVars, retryVars, confVars>>
    \/ \E o \in ResultOutcomes :
        LastBookmark(o) /\ UNCHANGED <<poolVars, routeVars, retryVars, confVars>>
    \/ \E o \in TxOutcomes : ~o.timeout /\ UserCommit(o)
                             /\ UNCHANGED <<poolVars, routeVars, retryVars, confVars>>
    \/ \E o \in TxOutcomes : ~o.timeout /\ UserRollback(o)
                             /\ UNCHANGED <<poolVars, routeVars, retryVars, confVars>>
    \/ \E c \in SConns : OtherAcquire(c) /\ UNCHANGED <<poolVars, routeVars, retryVars, confVars>>
    \/ \E c \in SConns : OtherRelease(c) /\ UNCHANGED <<poolVars, routeVars, retryVars, confVars>>

SpecSessionBookmarks == PoolInit /\ [][NextSessionBookmarks]_vars

\* A session created with any default_access_mode, used for auto-commit
\* queries, explicit transactions and connectivity checks.
SessionModesInit == Init /\ RouteInit /\ SessionInitAnyMode /\ RetryInit

NextSessionModes ==
    \/ \E o \in ConnectOutcomes : Run(o) /\ UNCHANGED <<poolVars, routeVars, retryVars, confVars>>
    \/ \E o \in ConnectOutcomes :
        BeginTransaction(o) /\ UNCHANGED <<poolVars, routeVars, retryVars, confVars>>
    \/ \E o \in ServerInfoOutcomes :
        GetServerInfo(o) /\ UNCHANGED <<poolVars, routeVars, retryVars, confVars>>
    \/ \E failed \in BOOLEAN, o \in CloseOutcomes :
        Close(failed, o) /\ UNCHANGED <<poolVars, routeVars, retryVars, confVars>>
    \/ \E o \in TxOutcomes : ~o.timeout /\ UserCommit(o)
                             /\ UNCHANGED <<poolVars, routeVars, retryVars, confVars>>
    \/ \E o \in TxOutcomes : ~o.timeout /\ UserRollback(o)
                             /\ UNCHANGED <<poolVars, routeVars, retryVars, confVars>>
    \/ \E o \in ResultOutcomes :
        UserConsumes(o) /\ UNCHANGED <<poolVars, routeVars, retryVars, confVars>>
    \/ \E c \in SConns : OtherAcquire(c) /\ UNCHANGED <<poolVars, routeVars, retryVars, confVars>>
    \/ \E c \in SConns : OtherRelease(c) /\ UNCHANGED <<poolVars, routeVars, retryVars, confVars>>

SpecSessionModes == SessionModesInit /\ [][NextSessionModes]_vars

\* One call of _run_transaction, with the clock.
NextRetry ==
    \/ \E cfg \in RetryConfigs :
        RtCall(cfg) /\ UNCHANGED <<poolVars, routeVars, sessVars, confVars>>
    \/ \E d \in 0..AttemptTime, err \in {"none"} \cup IOErrors :
        RtOpen(d, err) /\ UNCHANGED <<poolVars, routeVars, sessVars, confVars>>
    \/ \E d \in 0..AttemptTime, e \in FnOutcomes :
        RtFnEnds(d, e) /\ UNCHANGED <<poolVars, routeVars, sessVars, confVars>>
    \/ RtSleep /\ UNCHANGED <<poolVars, routeVars, sessVars, confVars>>

SpecRetry == PoolInit /\ [][NextRetry]_vars

\* The retry loop under the smallest retry times.
NextRetrySmall ==
    \/ \E cfg \in SmallRetryConfigs :
        RtCall(cfg) /\ UNCHANGED <<poolVars, routeVars, sessVars, confVars>>
    \/ \E d \in 0..AttemptTime, err \in {"none"} \cup IOErrors :
        RtOpen(d, err) /\ UNCHANGED <<poolVars, routeVars, sessVars, confVars>>
    \/ \E d \in 0..AttemptTime, e \in FnOutcomes :
        RtFnEnds(d, e) /\ UNCHANGED <<poolVars, routeVars, sessVars, confVars>>
    \/ RtSleep /\ UNCHANGED <<poolVars, routeVars, sessVars, confVars>>

SpecRetrySmall == PoolInit /\ [][NextRetrySmall]_vars

\* The steps of the loop are taken: the user function, the I/O of the
\* transaction and the sleep end.
SpecRetryLive == PoolInit /\ [][NextRetry]_vars /\ WF_vars(NextRetry)

(***************************************************************************)
(* Claims about the pool, checked under Spec.                              *)
(***************************************************************************)

\* C1: for every address, the connections of the address plus its
\* reservations never exceed max_connection_pool_size (when that is finite).
C1_PoolSizeBound ==
    MaxPoolSize >= 0 =>
        \A a \in Addrs : Len(connections[a]) + reservations[a] <= MaxPoolSize

\* C2: a connection is never handed out twice: while a task holds a
\* connection it is in use, and no other task holds it or has taken it
\* from the pool.
C2_SingleHolder ==
    \A t \in Tasks : held[t] # NoConn =>
        /\ in_use[held[t]]
        /\ \A u \in Tasks \ {t} : held[u] # held[t] /\ cand[u] # held[t]

\* C2 witness: a task holds a pooled connection that it took over from the
\* pool while another task is acquiring.
C2_Witness ==
    \E t \in Tasks, u \in Tasks :
        /\ t # u
        /\ last = Done("acquire", t, held[t], "pooled")
        /\ held[t] \in Pooled
        /\ pc[u] \in {"scan", "new", "wait"}

\* C3: when release returns, the connection is closed or no longer in use,
\* and no task is left waiting on the pool condition; also when the reset
\* sent by release failed with an error release catches.
C3_ReleasePost ==
    (last.op = "release" /\ last.res # "raised") =>
        /\ closed[last.conn] \/ ~in_use[last.conn]
        /\ \A t \in Tasks : pc[t] # "wait"

\* C3 witness: release has returned after its reset failed, and has woken
\* up two tasks.
C3_Witness ==
    /\ last.op = "release"
    /\ last.res = "protocol_error"
    /\ \E t \in Tasks, u \in Tasks : t # u /\ pc[t] = "scan" /\ pc[u] = "scan"

(***************************************************************************)
(* Claims about the routing pool, checked under SpecRoutingDbs.            *)
(***************************************************************************)

\* C4, as stated: whenever ensure_routing_table_is_fresh(access_mode,
\* database) returns True, the routing table stored for that database is
\* fresh for that access mode.
C4_FreshOnTrue ==
    (rlast.op = "ensure" /\ rlast.res = "True") =>
        IsFresh(routing_tables[rlast.db], rlast.mode = "READ")

\* C4, amended: ensure_routing_table_is_fresh returns True only after
\* update_routing_table has, in that call, stored an accepted reply as the
\* table of the database the reply names; right after it is stored that
\* table has a router and a reader, it is fresh for READ exactly if the ttl
\* of the reply is positive, and fresh for WRITE exactly if moreover the
\* reply has a writer.
C4_StoredOnTrue ==
    /\ (rlast.op = "ensure" /\ rlast.res = "True") => rlast.addr \in Dbs
    /\ rlast.op = "update" =>
        LET tab == routing_tables[rlast.db] IN
            /\ tab.routers # {}
            /\ tab.readers # {}
            /\ IsFresh(tab, TRUE) <=> rlast.res = "ttl"
            /\ IsFresh(tab, FALSE) <=> (rlast.res = "ttl" /\ ~tab.iww)

\* C4 witness: ensure_routing_table_is_fresh returns True for WRITE access
\* after an update, and the table of the requested database is fresh for
\* WRITE.
C4_Witness ==
    /\ rlast.op = "ensure" /\ rlast.res = "True" /\ rlast.mode = "WRITE"
    /\ rlast.addr = rlast.db
    /\ IsFresh(routing_tables[rlast.db], FALSE)

\* C5, as stated: once an address has been removed from every routers,
\* readers and writers set of every routing table, no later select_address
\* call returns it.
C5_NeverSelectedAgain ==
    rlast.op = "select" => rlast.addr \notin removed

\* C5, amended: select_address returns no address that is, at the time of
\* the call, missing from the readers (READ) or the writers (WRITE) of the
\* table of the requested database; a removed address is returned again
\* only after a routing table update has stored it again.
C5_NotSelectedWhileRemoved ==
    rlast.op = "select" =>
        /\ rlast.mode = "READ" => rlast.addr \in routing_tables[rlast.db].readers
        /\ rlast.mode = "WRITE" => rlast.addr \in routing_tables[rlast.db].writers

\* C5 witness: after an address was deactivated, select_address returns
\* another address for READ access while the deactivated address is in no
\* set of any routing table.
C5_Witness ==
    /\ rlast.op = "select" /\ rlast.mode = "READ"
    /\ \E a \in removed :
        /\ a # rlast.addr
        /\ \A d \in Dbs : a \notin ServersOf(routing_tables[d])

(***************************************************************************)
(* Claims about the session, checked under SpecSession.                    *)
(***************************************************************************)

\* C6: after any sequence of session operations at most one of the
\* auto-commit result and the transaction is set, and it is bound to the
\* connection the session holds.
C6_SingleWork ==
    (spc = "idle" /\ ~s_closed) =>
        /\ ~(s_auto_result.set /\ s_transaction # NoTx)
        /\ s_auto_result.set => s_auto_result.conn = s_connection
        /\ s_transaction # NoTx => s_transaction.conn = s_connection

\* C7: the session holds at most one connection of the pool: no connection
\* is in use on behalf of the session except the one it holds.
C7_OneConnection ==
    /\ \A c \in SConns : owner[c] = "session" => c = s_connection
    /\ s_connection # NoConn => owner[s_connection] = "session"

\* C7 witness: an attempt of _run_transaction opened its transaction on a
\* session that held a connection with an outstanding result: _connect
\* drained and released it before it acquired one.
C7_Witness ==
    /\ slast.op = "attempt" /\ slast.res = "opened"
    /\ slast.conn # NoConn
    /\ s_connection # NoConn
    /\ s_auto_result.set

\* C8: after close() returns, an explicit transaction that was open has
\* been rolled back and not committed, the session holds no connection, and
\* the connection it held is not in use for it.
C8_ClosePost ==
    (slast.op = "close" /\ slast.res = "returned") =>
        /\ slast.txopen => slast.tx.closed /\ ~slast.tx.committed
        /\ s_connection = NoConn
        /\ slast.conn # NoConn => owner[slast.conn] # "session"

C10_CommitOnlyOnReturn ==
    slast.op = "function" =>
        /\ "COMMIT" \in slast.sent => slast.uerr = "none"
        /\ slast.uerr # "none" =>
            /\ slast.tx.closed /\ ~slast.tx.committed
            /\ slast.src = "user" /\ slast.err = slast.uerr

\* C10, amended: COMMIT is sent only if the user function returned.  If it
\* raised an Exception the transaction is closed without a commit, and the
\* error raised by the attempt is that of the user function unless closing
\* the transaction raised, in which case it is the error of the close.  An
\* exception that is no Exception is raised as it is, and the transaction
\* is neither committed nor rolled back.
C10_CommitOrClose ==
    slast.op = "function" =>
        /\ "COMMIT" \in slast.sent => slast.uerr = "none"
        /\ slast.uerr \in {"retryable", "fatal", "other"} =>
            /\ slast.tx.closed /\ ~slast.tx.committed
            /\ slast.src \in {"user", "rollback"}
            /\ slast.src = "user" => slast.err = slast.uerr
        /\ slast.uerr = "base" =>
            /\ slast.src = "user" /\ slast.err = "base"
            /\ slast.sent = {}
            /\ ~slast.tx.committed

\* C10 witness: the user function raised an error after its transaction was
\* opened; the transaction was rolled back and the error raised again.
C10_Witness ==
    /\ slast.op = "function" /\ slast.uerr = "other"
    /\ slast.sent = {"ROLLBACK"}
    /\ slast.tx.closed
    /\ slast.res = "raised" /\ slast.src = "user" /\ slast.err = "other"

\* C11: an attempt of a managed transaction that fails with a driver or
\* server error that is not retryable raises that error at once: the user
\* function is not called again, no delay follows, and the session has
\* released its connection.
C11_NotRetried ==
    (slast.op \in {"attempt", "function"} /\ slast.err = "fatal") =>
        /\ slast.res = "raised"
        /\ spc = "idle" /\ attempts = 0
        /\ s_connection = NoConn
        /\ \A c \in SConns : owner[c] # "session"

\* C11 witness: the user function raised an error that is not retryable
\* while the session held the connection of the transaction; the
\* transaction was rolled back and the error raised.
C11_Witness ==
    /\ slast.op = "function" /\ slast.uerr = "fatal" /\ slast.err = "fatal"
    /\ slast.conn # NoConn
    /\ slast.sent = {"ROLLBACK"}
    /\ slast.res = "raised"

(***************************************************************************)
(* Claims about the retry loop, checked under SpecRetry.                   *)
(***************************************************************************)

\* C12: if the user function raises a retryable error in its first k calls
\* and returns in call k+1, all within the retry time, and nothing else
\* fails, then it was called k+1 times, the loop slept k times, and the
\* value returned is that of the last call.  As long as these calls fail
\* within the retry time the loop goes on: it raises only when the time
\* since the first failure is over.
C12_CallsAndSleeps ==
    rt_clean =>
        /\ rt_pc = "returned" =>
            /\ rt_calls = rt_fnfails + 1
            /\ rt_sleeps = rt_fnfails
            /\ rt_result = rt_calls
        /\ rt_pc = "raised" =>
            /\ rt_calls = rt_fnfails
            /\ rt_t0 # -1
            /\ rt_now - rt_t0 > rt_cfg.max_transaction_retry_time

\* C12 witness: the user function raised a retryable error twice and
\* returned in its third call.
C12_Witness ==
    /\ rt_clean /\ rt_pc = "returned"
    /\ rt_fnfails = 2
    /\ rt_calls = 3 /\ rt_sleeps = 2 /\ rt_result = 3

\* C13: the loop of a managed transaction ends: a call of _run_transaction
\* returns or raises, also if every attempt fails with a retryable error;
\* and it goes on to another attempt only if, when the attempt before
\* failed, the time since the first failure was not over.
C13_Terminates ==
    /\ [](rt_pc = "sleep" =>
            /\ rt_t0 # -1
            /\ rt_now - rt_t0 <= rt_cfg.max_transaction_retry_time)
    /\ [](rt_pc = "open" => rt_errors < MaxFailures)
    /\ (rt_pc # "idle") ~> (rt_pc \in {"returned", "raised"})

\* C13 witness: every attempt failed with a retryable error of the user
\* function, and the loop raised when the retry time was over.
C13_Witness ==
    /\ rt_pc = "raised"
    /\ rt_errors >= 3
    /\ rt_calls = rt_errors /\ rt_fnfails = rt_errors
    /\ rt_now - rt_t0 > rt_cfg.max_transaction_retry_time

(***************************************************************************)
(* Claims about the pool of any size, checked under SpecPoolSizes and      *)
(* SpecPoolSequential.                                                     *)
(***************************************************************************)

\* C14: with max_connection_pool_size = 0 no acquire returns or opens a
\* connection: an acquire that ends has failed with the timeout error of
\* the pool, after its deadline expired or its wait on the pool condition
\* timed out.
C14_ZeroPoolNeverAcquires ==
    max_pool_size = 0 =>
        /\ \A t \in Tasks : held[t] = NoConn /\ pc[t] \notin {"open", "check"}
        /\ \A a \in Addrs : connections[a] = <<>>
        /\ \A c \in Conns : closed[c] /\ ~in_use[c]
        /\ last.op = "acquire" => last.res = "timeout" /\ last.conn = NoConn

\* C14 witness: an acquire on a pool of size 0 has failed with the timeout
\* error while another one waits.
C14_Witness ==
    /\ max_pool_size = 0
    /\ last.op = "acquire" /\ last.res = "timeout"
    /\ \E t \in Tasks : pc[t] = "wait"

\* C15: with max_connection_pool_size = 1 and one acquire after the other,
\* while the connection is checked out no other acquire returns a
\* connection, and an acquire has to wait for the pool (and then fails with
\* the timeout error) only while the connection is checked out: once the
\* holder has released the connection, a following acquire does not wait.
C15_WaitsOnlyWhileCheckedOut ==
    max_pool_size = 1 =>
        /\ \A t, u \in Tasks : held[t] # NoConn /\ held[u] # NoConn => t = u
        /\ \A t \in Tasks : pc[t] = "wait" => \E c \in Pooled : in_use[c]

\* C16: releasing a connection a second time, with no acquire in between,
\* sends no second reset and leaves the flags of the connection and the
\* contents of the pool unchanged.
C16_SecondReleaseNoOp ==
    [][last'.op = "release_again" =>
          /\ last'.res = "none"
          /\ UNCHANGED <<connections, reservations, in_use, closed, defunct,
                         stale, is_reset>>]_vars

(***************************************************************************)
(* Claims about the routing pool, continued.                               *)
(***************************************************************************)

\* C17: when acquire of the routing pool selects an address and the table
\* of the database has no reader (READ) or no writer (WRITE), acquire
\* returns no connection and raises SessionExpired, whose cause is
\* ReadServiceUnavailable (READ) or WriteServiceUnavailable (WRITE).
C17_NoAddressExpires ==
    [][\A t \in RTasks :
          (/\ rpc[t] = "select"
           /\ rpc'[t] # "select"
           /\ routing_tables[rdb[t]] # NoTable
           /\ Candidates(rmode[t], rdb[t]) = {})
          => /\ rpc'[t] = "idle"
             /\ rpool' = rpool
             /\ rlast'.op = "acquire"
             /\ rlast'.mode = rmode[t]
             /\ rlast'.addr = "none"
             /\ rlast'.res = "SessionExpired"
             /\ rmode[t] = "WRITE" => rlast'.cause = "WriteServiceUnavailable"
             /\ rmode[t] = "READ" => rlast'.cause = "ReadServiceUnavailable"]_vars

C17_Witness ==
    /\ rlast.op = "acquire"
    /\ rlast.mode = "WRITE"
    /\ rlast.res = "SessionExpired"
    /\ rlast.cause = "WriteServiceUnavailable"
    /\ routing_tables[rlast.db].writers = {}
    /\ routing_tables[rlast.db].readers # {}

\* C18: when update_routing_table has no router left to try, it raises
\* ServiceUnavailable; unless the deadline expired on the way, it has tried
\* the existing routers and the first initial routing address, and every
\* router it tried is in no routing table any more.
C18_NoRouterLeft ==
    [][\A t \in RTasks :
          (/\ rpc[t] = "update"
           /\ NextRouters(rplan[t]) = {}
           /\ rpc'[t] # "update")
          => /\ rpc'[t] = "idle"
             /\ refresh_lock' = 0
             /\ rlast'.op = "acquire"
             /\ rlast'.res = "ServiceUnavailable"
             /\ rlast'.tried = rplan[t].tried
             /\ ~rplan[t].expired =>
                    rlast'.tried = rplan[t].routers \cup {R0}
             /\ \A r \in rlast'.tried, d \in Dbs :
                    r \notin ServersOf(routing_tables'[d])]_vars

C18_Witness ==
    /\ rlast.op = "acquire"
    /\ rlast.res = "ServiceUnavailable"
    /\ ~rlast.expired
    /\ rlast.tried = RAddrs

(***************************************************************************)
(* Claims about the session, continued.                                    *)
(***************************************************************************)

\* C19, as stated: a session calls update_routing_table for the home
\* database at most once, in its first _connect.
C19_DiscoveryAtMostOnce ==
    slast.disc # "none" => slast.before = "never"

\* C19, amended: a _connect calls update_routing_table exactly when no
\* database is configured and no earlier call has succeeded; a call that
\* succeeds caches the database of the new routing table, and from then on
\* every _connect makes no call and acquires with the cached database.
C19_NoDiscoveryOnceCached ==
    /\ slast.disc # "none" => slast.before # "done"
    /\ slast.disc \in {"ok", "unnamed"} =>
        /\ s_discovery = "done"
        /\ s_cached_database
        /\ s_database = (IF slast.disc = "ok" THEN "neo4j" ELSE "none")
        /\ slast.acquired = s_database
    /\ slast.disc = "error" =>
        /\ s_discovery = "failed"
        /\ ~s_cached_database
        /\ slast.acquired = "no acquire"
    /\ (slast.acquired # "no acquire" /\ slast.disc = "none") =>
        /\ slast.acquired = s_database
        /\ s_cached_database
        /\ slast.before = "done" \/ (slast.before = "never" /\ s_database # "none")
    /\ s_discovery = "done" => s_cached_database

C19_Witness ==
    /\ slast.before = "done"
    /\ slast.disc = "none"
    /\ slast.acquired = "neo4j"
    /\ slast.conn = NoConn
    /\ s_connection # NoConn

\* C20: the bookmarks of the session change only in an operation in which
\* an auto-commit result or a transaction completes successfully with a
\* bookmark, and after such an operation they are that bookmark; every
\* other operation (error handlers, rollbacks, completions without a
\* bookmark) leaves them as they are.
C20_BookmarksFollowCompletions ==
    [][/\ s_bookmarks' # s_bookmarks =>
            \E e \in slast'.ended : e.b # 0 /\ s_bookmarks' = e.b
       /\ \A e \in slast'.ended : e.b # 0 => s_bookmarks' = e.b]_vars

C20_Witness ==
    /\ s_bookmarks = MaxBookmark
    /\ slast.op = "function"
    /\ slast.ended = {[kind |-> "commit", b |-> MaxBookmark]}

\* C21: in a session created without a default_access_mode,
\* begin_transaction calls the acquire of the pool at most once and with
\* access mode WRITE; when it returns the transaction it has called it
\* exactly once and has sent BEGIN with access mode WRITE.
C21_WriteByDefault ==
    (default_access_mode = "unset" /\ slast.op = "begin_transaction") =>
        /\ Len(slast.acquires) <= 1
        /\ \A i \in 1..Len(slast.acquires) :
               slast.acquires[i].access_mode = "WRITE"
        /\ slast.begin_mode \in {"none", "WRITE"}
        /\ "BEGIN" \in slast.sent <=> slast.begin_mode = "WRITE"
        /\ slast.res = "returned" =>
            /\ Len(slast.acquires) = 1
            /\ slast.begin_mode = "WRITE"
            /\ s_connection # NoConn

C21_Witness ==
    /\ default_access_mode = "unset"
    /\ slast.op = "begin_transaction"
    /\ slast.res = "returned"
    /\ Len(slast.acquires) = 1
    /\ slast.begin_mode = "WRITE"

\* C22: a connectivity check calls the acquire of the pool exactly once,
\* for reading and with a liveness check timeout of 0; when the acquire
\* gave a connection the check releases it exactly once and returns with
\* no connection held.
C22_CheckAcquiresAndReleasesOnce ==
    slast.op = "get_server_info" =>
        /\ slast.src \in {"none", "acquire"} =>
            /\ Len(slast.acquires) = 1
            /\ slast.acquires[1].liveness_check_timeout = 0
            /\ slast.acquires[1].access_mode = "READ"
        /\ slast.res = "returned" =>
            /\ Len(slast.acquires) = 1
            /\ slast.releases = 1
        /\ slast.res = "raised" => slast.releases = 0
        /\ s_connection = NoConn
        /\ \A c \in SConns : owner[c] # "session"

C22_Witness ==
    /\ slast.op = "get_server_info"
    /\ slast.res = "returned"
    /\ slast.releases = 1
    /\ Len(slast.acquires) = 1

(***************************************************************************)
(* Claims about the pool, continued.                                       *)
(***************************************************************************)

\* C23: the reservations of an address are the openers in flight for it:
\* the acquires that were admitted to open a connection and whose opener
\* has not returned or raised yet; with no acquire in progress they are 0.
C23_ReservationsAreOpeners ==
    \A a \in Addrs :
        reservations[a] =
            Cardinality({t \in Tasks : pc[t] = "open" /\ taddr[t] = a})

\* C24: when the opener of an acquire fails, the acquire raises the error
\* and returns no connection, and the reservation of the opener is given
\* back.  After ServiceUnavailable the address is deactivated: its idle
\* connections are closed and removed, those in use stay.  After another
\* error the connections of the pool are as before.
C24_OpenerFails ==
    [][\A t \in Tasks :
          (pc[t] = "open" /\ pc'[t] = "idle" /\ held'[t] = NoConn) =>
              LET a == taddr[t] IN
              /\ last'.op = "acquire" /\ last'.task = t
              /\ last'.conn = NoConn
              /\ last'.res \in {"unavailable", "error"}
              /\ reservations' = [reservations EXCEPT ![a] = @ - 1]
              /\ in_use' = in_use
              /\ last'.res = "error" =>
                    connections' = connections /\ closed' = closed
              /\ last'.res = "unavailable" =>
                    /\ connections' =
                           [connections EXCEPT ![a] = SelectSeq(@, KeepInUse)]
                    /\ \A c \in Range(connections'[a]) : in_use[c]
                    /\ \A c \in Range(connections[a]) :
                           ~in_use[c] => closed'[c]]_vars

C24_Witness ==
    /\ last.op = "acquire"
    /\ last.res = "unavailable"
    /\ \E a \in Addrs :
        /\ \E c \in Range(connections[a]) : in_use[c]
        /\ Len(connections[a]) + reservations[a] < max_pool_size

\* C25: the health check of an acquire ends in one of two ways: the
\* connection passed and is returned, or it failed (closed, defunct, stale,
\* or its liveness reset failed) and is closed and removed from the pool
\* while the acquire goes on with its scan and raises nothing.
C25_FailedCheckEvicts ==
    [][\A t \in Tasks :
          (pc[t] = "check" /\ pc'[t] # "check") =>
              LET c == cand[t] IN
              \/ /\ ~Broken(c)
                 /\ held'[t] = c
                 /\ last'.op = "acquire" /\ last'.res = "pooled"
              \/ /\ closed'[c]
                 /\ c \notin Range(connections'[taddr[t]])
                 /\ pc'[t] = "scan"
                 /\ held'[t] = NoConn
                 /\ last'.op # "acquire"]_vars

C28_LoopDeactivatesAndEnds ==
    /\ [][\A t \in RTasks :
             (rpc[t] = "conn" /\ rpc'[t] = "select") =>
                 /\ \A d \in Dbs : rcur[t] \notin ServersOf(routing_tables'[d])
                 /\ rcur[t] \in rplan'[t].tried
                 /\ rlast'.op # "acquire"
                 /\ rpool' = rpool]_vars
    /\ [][\A t \in RTasks :
             (rpc[t] = "select" /\ rpc'[t] = "conn") =>
                 rcur'[t] \notin rplan[t].tried]_vars
    /\ [][\A t \in RTasks :
             (rpc[t] \in {"select", "conn"} /\ rpc'[t] = "idle") =>
                 /\ rlast'.op = "acquire"
                 /\ rlast'.res \in {"connection", "SessionExpired",
                                    "ClientError", "KeyError"}
                 /\ rlast'.res = "SessionExpired" =>
                        /\ rpc[t] = "select"
                        /\ Candidates(rmode[t], rdb[t]) = {}
                 /\ rlast'.res = "connection" =>
                        /\ rlast'.addr = rcur[t]
                        /\ rcur[t] \notin rplan[t].tried]_vars
    /\ (rpc[1] \in {"select", "conn"}) ~> (rpc[1] = "idle")

\* The loop has tried every address, each once, and raised SessionExpired.
C28_Witness ==
    /\ rlast.op = "acquire"
    /\ rlast.res = "SessionExpired"
    /\ rlast.mode = "READ"
    /\ rlast.tried = RAddrs

\* C29: of a router's reply fetch_routing_table makes a routing table
\* exactly if the reply names a router and a reader, and else returns
\* None; the table has the servers of the reply, and a reply that names no
\* writer is accepted like any other.
C29_TableIffRouterAndReader ==
    rlast.reply # NoReply =>
        /\ rlast.op \in {"update", "fetch"}
        /\ rlast.op = "update" <=>
               (rlast.reply.routers # {} /\ rlast.reply.readers # {})
        /\ rlast.op = "fetch" => rlast.res = "None"
        /\ rlast.op = "update" =>
               ServersIn(routing_tables[rlast.db]) = rlast.reply

\* A reply that names no writer has become the table.
C29_Witness ==
    /\ rlast.op = "update"
    /\ rlast.reply.writers = {}
    /\ routing_tables[rlast.db].writers = {}
    /\ routing_tables[rlast.db].readers # {}

\* A reply that names a writer and no reader was turned down.
C29_WitnessNone ==
    /\ rlast.op = "fetch"
    /\ rlast.res = "None"
    /\ rlast.reply.readers = {}
    /\ rlast.reply.writers # {}

\* C30: when a router yields no table during update_routing_table (as when
\* its connection fails with ServiceUnavailable or SessionExpired), no
\* error is raised, the router is deactivated, and the routers that were
\* still to be tried, but for this one, are still to be tried; when a
\* router answers with an error that is fatal during discovery, acquire
\* raises it at once, with routers left untried and none deactivated.
C30_UnavailableGoesOnFatalAborts ==
    /\ [][\A t \in RTasks :
             (/\ rpc[t] = "update"
              /\ rplan[t].tried \subseteq rplan'[t].tried
              /\ rplan[t].tried # rplan'[t].tried)
             => /\ rpc'[t] = "update"
                /\ refresh_lock' = t
                /\ rlast'.op # "acquire"
                /\ \E r \in NextRouters(rplan[t]) :
                    /\ rplan'[t].tried = rplan[t].tried \cup {r}
                    /\ RemainingRouters(rplan'[t]) =
                           RemainingRouters(rplan[t]) \ {r}
                    /\ \A d \in Dbs : r \notin ServersOf(routing_tables'[d])
                /\ RemainingRouters(rplan'[t]) # {} =>
                       NextRouters(rplan'[t]) # {}]_vars
    /\ [][\A t \in RTasks :
             (/\ rpc[t] = "update"
              /\ rpc'[t] = "idle"
              /\ rlast'.res = "Neo4jError")
             => /\ rlast'.op = "acquire"
                /\ refresh_lock' = 0
                /\ routing_tables' = routing_tables
                /\ removed' = removed
                /\ rlast'.tried = rplan[t].tried
                /\ RemainingRouters(rplan[t]) # {}]_vars

\* The first router failed and was deactivated, the next one answered with
\* a fatal error, and the first initial routing address, in the table, was
\* not tried.
C30_Witness ==
    /\ rlast.op = "acquire"
    /\ rlast.res = "Neo4jError"
    /\ ~rlast.expired
    /\ rlast.tried # {}
    /\ R0 \notin rlast.tried
    /\ \E d \in Dbs : R0 \in routing_tables[d].routers

\* C31: in one call of update_routing_table no router, and so not the
\* first initial routing address, is asked twice; with a table that was
\* initialized without writers the first initial routing address is asked
\* before every other router, else only when every other existing router
\* has yielded no table; once the deadline has expired no router is asked
\* for a table any more; the call ends with the first table.
C31_InitialRouterOnceInOrder ==
    /\ [][\A t \in RTasks :
             (/\ rpc[t] = "update"
              /\ \/ rpc'[t] = "pool"
                 \/ /\ rpc'[t] = "update"
                    /\ rplan'[t].tried # rplan[t].tried)
             => LET r == IF rpc'[t] = "pool" THEN rlast'.addr
                         ELSE CHOOSE x \in rplan'[t].tried :
                                  x \notin rplan[t].tried
                    plan == rplan[t]
                IN  /\ r \notin plan.tried
                    /\ plan.expired => rpc'[t] = "update"
                    /\ (r = R0 /\ plan.prefer) => plan.tried = {}
                    /\ (r # R0 /\ plan.prefer /\ ~plan.expired) =>
                           R0 \in plan.tried
                    /\ (r = R0 /\ ~plan.prefer /\ ~plan.expired) =>
                           (plan.routers \ {R0}) \subseteq plan.tried
                    /\ rpc'[t] = "pool" =>
                           /\ rplan'[t] = NoPlan
                           /\ rlast'.op = "update"
                           /\ rlast'.tried = plan.tried]_vars
    /\ [][\A t \in RTasks :
             (rpc[t] = "idle" /\ rpc'[t] = "update") =>
                 /\ rplan'[t].prefer = routing_tables'[rdb'[t]].iww
                 /\ rplan'[t].routers = routing_tables'[rdb'[t]].routers
                 /\ rplan'[t].tried = {}]_vars

\* With a table initialized without writers the first initial routing
\* address was asked first and yielded no table, and the other router
\* then gave the table.
C31_Witness ==
    /\ rlast.op = "update"
    /\ rlast.addr # R0
    /\ rlast.tried = {R0}

\* With another table the other router was asked first and yielded no
\* table, and the first initial routing address then gave the table.
C31_WitnessLast ==
    /\ rlast.op = "update"
    /\ rlast.addr = R0
    /\ rlast.tried = RAddrs \ {R0}

\* C32: the address _select_address returns is a reader (READ) or a writer
\* (WRITE) of the table of the database, and no other address of that set
\* has fewer connections in use.
C32_SelectsLeastUsed ==
    rlast.op = "select" =>
        LET set == IF rlast.mode = "READ"
                   THEN routing_tables[rlast.db].readers
                   ELSE routing_tables[rlast.db].writers
        IN  /\ rlast.addr \in set
            /\ \A b \in set : rpool[rlast.addr] <= rpool[b]

\* An address was selected while another reader had more connections in
\* use.
C32_Witness ==
    /\ rlast.op = "select"
    /\ rlast.mode = "READ"
    /\ \E b \in routing_tables[rlast.db].readers :
           rpool[b] > rpool[rlast.addr]

\* C33, as stated: when update_connection_pool has run after a table was
\* refreshed, the pool holds no idle connection to an address that is no
\* server of the refreshed table, and the connections in use are as they
\* were.
C33_NoIdleOutsideNewTable ==
    [][\A t \in RTasks :
          (rpc[t] = "pool" /\ rpc'[t] = "select") =>
              /\ ridle' \subseteq ServersOf(routing_tables[rnewdb[t]])
              /\ rpool' = rpool]_vars

\* C34, as stated: whenever the routers, readers or writers of a routing
\* table change, or a table is created or purged, a task holds the refresh
\* lock (it held it before the step or holds it after the step, and it is
\* a task that is in ensure_routing_table_is_fresh).
C34_TablesChangeUnderLock ==
    [][(\E d \in Dbs :
           \/ routing_tables'[d].routers # routing_tables[d].routers
           \/ routing_tables'[d].readers # routing_tables[d].readers
           \/ routing_tables'[d].writers # routing_tables[d].writers
           \/ (routing_tables'[d] = NoTable) # (routing_tables[d] = NoTable))
       => \E t \in RTasks :
              /\ refresh_lock = t \/ refresh_lock' = t
              /\ rpc[t] \in {"update", "pool"} \/ rpc'[t] \in {"update", "pool"}
      ]_vars

(***************************************************************************)
(* Claims about the pool, continued.                                       *)
(***************************************************************************)

\* C35, as stated, for release: release holds the pool lock from its first
\* statement to its last (it is one step here), so that it does no socket
\* I/O under the lock means that it sends no reset: its outcome is that of
\* no reset ("none"), whatever the connection was used for.
C35_NoResetUnderLock ==
    last.op \in {"release", "release_again"} => last.res = "none"


(***************************************************************************)
(* Claims about the retry loop, continued; checked under SpecRetrySmall.   *)
(***************************************************************************)

\* C36 as stated: whenever the first attempt of a managed transaction fails
\* with a retryable error, the loop goes on to a second attempt, whatever
\* the time of the first attempt and whatever max_transaction_retry_time.
C36_SecondAttemptAlways ==
    [][(rt_errors = 0 /\ rt_errors' = 1) => rt_pc' = "sleep"]_vars

\* C36: the time of the first attempt does not count: when the first
\* attempt fails with a retryable error the timer starts at the first
\* reading of the clock after it, and the loop goes on to a second attempt
\* if and only if the second reading is no more than
\* max_transaction_retry_time after the first; so it does whenever
\* max_transaction_retry_time is no less than the time between the two
\* readings, and with max_transaction_retry_time = 0 only if both readings
\* are the same.
C36_SecondAttemptUnlessGapOver ==
    [][(rt_errors = 0 /\ rt_errors' = 1) =>
          /\ rt_t0' >= rt_now' - MaxReadingGap
          /\ (rt_pc' = "sleep") <=>
                (rt_now' - rt_t0' <= rt_cfg.max_transaction_retry_time)
          /\ rt_cfg.max_transaction_retry_time >= MaxReadingGap =>
                rt_pc' = "sleep"]_vars

\* C36 witness: the first attempt took longer than
\* max_transaction_retry_time and failed with a retryable error; the loop
\* sleeps before the second attempt.
C36_Witness ==
    /\ rt_errors = 1 /\ rt_pc = "sleep"
    /\ rt_cfg.max_transaction_retry_time = 1
    /\ rt_now > rt_cfg.max_transaction_retry_time
    /\ rt_calls = 1 /\ rt_fnfails = 1

\* C36 witness: max_transaction_retry_time = 0 and the clock went on
\* between the two readings: the error of the first attempt is raised and
\* no second attempt is made.
C36_WitnessZero ==
    /\ rt_errors = 1 /\ rt_pc = "raised"
    /\ rt_cfg.max_transaction_retry_time = 0
    /\ rt_now - rt_t0 = 1
    /\ rt_calls = 1 /\ rt_fnfails = 1

(***************************************************************************)
(* Claims about the session, continued; checked under                      *)
(* SpecSessionBookmarks.                                                   *)
(***************************************************************************)

\* C37: a call of last_bookmarks() or of the deprecated last_bookmark()
\* while an explicit transaction is open leaves the transaction attached
\* to the session and the bookmarks as they were.
C37_OpenTxStaysAttached ==
    [][(ExplicitOpen /\ slast' # slast
          /\ slast'.op \in {"last_bookmarks", "last_bookmark"}) =>
            /\ s_transaction' = s_transaction
            /\ s_bookmarks' = s_bookmarks]_vars

\* C37 for last_bookmarks() alone.
C37_LastBookmarksKeepsOpenTx ==
    [][(ExplicitOpen /\ slast' # slast /\ slast'.op = "last_bookmarks") =>
            /\ s_transaction' = s_transaction
            /\ s_bookmarks' = s_bookmarks]_vars

(***************************************************************************)
(* Claims about the pool, continued; checked under Spec.                   *)
(***************************************************************************)

\* C38: no wake-up is lost: no task waits on the condition of the pool
\* while the pool holds a connection to the task's address that is not in
\* use and would pass the health check.
C38_NoWaitWhileIdle ==
    \A t \in Tasks :
        pc[t] = "wait" =>
            ~\E c \in Range(connections[taddr[t]]) :
                ~in_use[c] /\ ~Broken(c)
\* C39: no connection is left marked in use: whenever no task holds a
\* connection and no task is inside an operation of the pool, no
\* connection of the pool has in_use set; so after an acquire that raised.
C39_NoInUseLeak ==
    (\A t \in Tasks : pc[t] = "idle" /\ held[t] = NoConn) =>
        \A c \in Pooled : ~in_use[c]

(***************************************************************************)
(* Claims about the session, continued; checked under SpecSession.         *)
(***************************************************************************)

\* C40: a close() whose rollback of the explicit transaction that was
\* still open fails releases the connection the session held and marks
\* the session closed.
C40_CloseDespiteFailedRollback ==
    (slast.op = "close" /\ slast.txopen /\ slast.err # "none") =>
        /\ s_connection = NoConn
        /\ slast.conn # NoConn => owner[slast.conn] # "session"
        /\ s_closed

\* C40, the connection alone: it is released.
C40_ReleasesDespiteFailedRollback ==
    (slast.op = "close" /\ slast.txopen /\ slast.err # "none") =>
        /\ slast.src = "rollback" /\ slast.res = "raised"
        /\ s_connection = NoConn
        /\ slast.conn # NoConn => owner[slast.conn] # "session"
        /\ s_transaction = NoTx
        /\ ~s_closed
=============================================================================
